---- MODULE Spec2Model ----
(***************************************************************************)
(* GridQ behind-the-meter battery dispatch: the baseline heuristic, the    *)
(* LP builder and the solver adapter, the physical validator and the       *)
(* backtest runner, as a state machine.                                    *)
(*                                                                         *)
(* Numbers.  The program computes in floating point.  A value is modelled  *)
(* as a pair <<n, d>>: for d > 0 the exact rational n/d; d = 0 stands for  *)
(* the IEEE specials numpy produces on a division by zero: <<1,0>> = +inf, *)
(* <<-1,0>> = -inf, <<0,0>> = nan.  Rounding error is not modelled.        *)
(***************************************************************************)
EXTENDS Integers, Sequences, FiniteSets, TLC

VARIABLES
    entry,         \* the operation the caller invoked
    pc,            \* position inside that operation
    site_config,   \* SiteConfig (with its BatteryConfig)
    run_config,    \* RunConfig (timestep_minutes, tariff)
    timeseries,    \* the input DataFrame: columns load_kw, pv_kw and which price columns exist
    solver,        \* the external LP solver this run talks to: within its contract or defective
    result,        \* compute_baseline_dispatch: the result DataFrame's dispatch columns
    i,             \* compute_baseline_dispatch: the loop index
    model,         \* build_model: the linopy model (its constraints), or NoModel
    status,        \* solve_model: what model.solve did ("raised", or model.status)
    dispatch_df,   \* the dispatch solve_model extracted / the caller passed in, or None
    err,           \* the exception that ended the operation, or NoException
    log,           \* the calls made so far, in order
    metrics,       \* compute_metrics: the dictionary it returned, or None
    cfg,           \* multi_objective_bess: the Config, or None
    n_points,      \* compute_pareto_front: the parameter n_points
    linprog,       \* what scipy's linprog can answer for (cfg, timeseries): the
                   \* <<realised peak, energy cost>> of every feasible dispatch
    peak_min,      \* compute_pareto_front: local peak_min
    peak_max,      \* compute_pareto_front: local peak_max
    unconstrained, \* compute_pareto_front: local unconstrained
    front,         \* compute_pareto_front: local front / select_operating_point: its argument
    calls,         \* the peak limits solve_with_peak_limit was called with, in order
    preference,    \* select_operating_point: its argument preference
    selected       \* select_operating_point: the point returned, or None

frontier == <<cfg, n_points, linprog, peak_min, peak_max, unconstrained, front, calls,
              preference, selected>>

vars == <<entry, pc, site_config, run_config, timeseries, solver, result, i, model,
          status, dispatch_df, err, log, metrics, frontier>>

\* Python's None for an optional number or a DataFrame not yet made; NoException
\* where a call raised nothing
None == <<>>
NoException == "None"
NoModel == [T |-> 0, nvars |-> 0, constraints |-> <<>>, built |-> FALSE,
            objective |-> [const |-> <<0, 1>>, terms |-> <<>>]]

(***************************************************************************)
(* Bounds of the model.                                                    *)
(***************************************************************************)
MaxT == 2          \* longest timeseries

(***************************************************************************)
(* Arithmetic on values <<n, d>>.                                          *)
(***************************************************************************)
Abs(x) == IF x < 0 THEN -x ELSE x

\* Euclid's algorithm; the pair <<b, a % b>> is bound as a value, so that a step
\* is worked out once wherever the operator is evaluated
RECURSIVE GCD(_, _)
GCD(a, b) ==
    IF b = 0 THEN a ELSE CHOOSE g \in {GCD(y[1], y[2]) : y \in {<<b, a % b>>}} : TRUE

\* the canonical pair of n/d, d > 0
Norm(n, d) ==
    LET g == GCD(Abs(n), d)
    IN  IF n = 0 THEN <<0, 1>> ELSE <<n \div g, d \div g>>

R(n, d) == Norm(n, d)
Num(n) == <<n, 1>>
Zero == <<0, 1>>
Inf == <<1, 0>>
NegInf == <<-1, 0>>
NaN == <<0, 0>>

IsFinite(a) == a[2] > 0
IsNaN(a) == a = NaN
Sign(a) == IF a[1] > 0 THEN 1 ELSE IF a[1] < 0 THEN -1 ELSE 0

\* a < b as IEEE compares: any comparison with nan is false
Lt(a, b) ==
    IF IsNaN(a) \/ IsNaN(b) THEN FALSE
    ELSE IF IsFinite(a) /\ IsFinite(b) THEN a[1] * b[2] < b[1] * a[2]
    ELSE IF ~IsFinite(a) /\ ~IsFinite(b) THEN a[1] < b[1]
    ELSE IF ~IsFinite(a) THEN a[1] < 0
    ELSE b[1] > 0

Gt(a, b) == Lt(b, a)
Le(a, b) == IF IsNaN(a) \/ IsNaN(b) THEN FALSE ELSE ~Lt(b, a)
Ge(a, b) == Le(b, a)

Add(a, b) ==
    IF IsNaN(a) \/ IsNaN(b) THEN NaN
    ELSE IF IsFinite(a) /\ IsFinite(b) THEN Norm(a[1] * b[2] + b[1] * a[2], a[2] * b[2])
    ELSE IF ~IsFinite(a) /\ ~IsFinite(b) THEN (IF a = b THEN a ELSE NaN)
    ELSE IF ~IsFinite(a) THEN a
    ELSE b

Neg(a) == <<-a[1], a[2]>>
Sub(a, b) == Add(a, Neg(b))

Mul(a, b) ==
    IF IsNaN(a) \/ IsNaN(b) THEN NaN
    ELSE IF IsFinite(a) /\ IsFinite(b) THEN Norm(a[1] * b[1], a[2] * b[2])
    ELSE IF Sign(a) * Sign(b) = 0 THEN NaN
    ELSE <<Sign(a) * Sign(b), 0>>

\* a / b for a finite b # 0
Div(a, b) ==
    IF b[1] > 0 THEN Mul(a, <<b[2], b[1]>>) ELSE Mul(a, <<-b[2], -b[1]>>)

AbsV(a) == IF Lt(a, Zero) THEN Neg(a) ELSE a

\* The same sum, product and comparison for finite values, with the common
\* factors taken out first: the bisection of compute_pareto_front halves an
\* interval 20 times, and its denominators 2^20 must not be multiplied together.
AddW(a, b) ==
    LET g == GCD(a[2], b[2])
    IN  Norm(a[1] * (b[2] \div g) + b[1] * (a[2] \div g), (a[2] \div g) * b[2])
SubW(a, b) == AddW(a, Neg(b))
MulW(a, b) ==
    LET g1 == GCD(Abs(a[1]), b[2])
        g2 == GCD(Abs(b[1]), a[2])
    IN  Norm((a[1] \div g1) * (b[1] \div g2), (a[2] \div g2) * (b[2] \div g1))
LtW(a, b) ==
    LET g == GCD(a[2], b[2])
    IN  a[1] * (b[2] \div g) < b[1] * (a[2] \div g)
LeW(a, b) == ~LtW(b, a)

\* numpy.float64 / 0.0: a warning and inf, -inf or nan; never an exception
NumpyDivByZero(a) ==
    IF IsNaN(a) \/ Sign(a) = 0 THEN NaN ELSE <<Sign(a), 0>>

\* Python's builtin min(a, b) / max(a, b): the first argument unless the
\* second is strictly smaller / greater
PyMin(a, b) == IF Lt(b, a) THEN b ELSE a
PyMax(a, b) == IF Gt(b, a) THEN b ELSE a

(***************************************************************************)
(* Configuration and input: the values the schemas accept                  *)
(* (core/schemas.py) and a timeseries validate_timeseries accepts.         *)
(***************************************************************************)
\* BatteryConfig: every field is range-checked on its own; no validator
\* relates min_soc_frac, max_soc_frac and initial_soc_frac to each other.
SocFracs == {Zero, R(1, 2), Num(1)}
Efficiencies == {Zero, R(1, 2), Num(1)}

\* degradation_cost_gbp_per_kwh: ge=0
DegradationCosts == {Zero, Num(1)}

BatteryConfig ==
    [capacity_kwh : {Num(2)},
     max_charge_kw : {Num(1)},
     max_discharge_kw : {Num(1)},
     charge_efficiency : Efficiencies,
     discharge_efficiency : Efficiencies,
     min_soc_frac : SocFracs,
     max_soc_frac : SocFracs,
     initial_soc_frac : SocFracs,
     degradation_cost_gbp_per_kwh : DegradationCosts]

\* SiteConfig: each grid cap is absent or > 0
GridCaps == {None, Num(1)}
SiteConfig ==
    [battery : BatteryConfig,
     max_grid_import_kw : GridCaps,
     max_grid_export_kw : GridCaps]

\* TariffConfig: flat prices are optional; RunConfig: timestep_minutes divides 60
FlatPrices == {None, Num(1)}
\* demand_charge_gbp_per_kw: ge=0, whether or not demand_charge_enabled
DemandRates == {Zero, Num(1)}
TariffConfig ==
    [flat_import_price_gbp_per_kwh : FlatPrices,
     flat_export_price_gbp_per_kwh : FlatPrices,
     demand_charge_enabled : BOOLEAN,
     demand_charge_gbp_per_kw : DemandRates]
RunConfig ==
    [timestep_minutes : {30, 60},
     tariff : TariffConfig]

\* load_kw and pv_kw: validate_timeseries accepts any value >= 0
Power == {Zero, Num(2)}
PowerSeqs(n) == [1..n -> Power]
\* the price columns: validate_timeseries puts no sign condition on them
Prices == {Num(-1), Num(1), Num(2)}
PriceSeqs(n) == [1..n -> Prices]
\* timeseries whose prices are flat: import 1, export 0
Timeseries(cols) ==
    UNION {[load_kw : PowerSeqs(n), pv_kw : PowerSeqs(n),
            import_price_gbp_per_kwh : {[k \in 1..n |-> Num(1)]},
            export_price_gbp_per_kwh : {[k \in 1..n |-> Zero]},
            columns : {cols}] : n \in 0..MaxT}
\* timeseries with any prices
PricedTimeseries(cols) ==
    UNION {[load_kw : PowerSeqs(n), pv_kw : PowerSeqs(n),
            import_price_gbp_per_kwh : PriceSeqs(n),
            export_price_gbp_per_kwh : PriceSeqs(n),
            columns : {cols}] : n \in 0..MaxT}

AllColumns ==
    {"load_kw", "pv_kw", "import_price_gbp_per_kwh", "export_price_gbp_per_kwh"}

Len_ts(ts) == Len(ts.load_kw)

\* the dispatch columns of one row of a DataFrame
Row(imp, exp, chg, dis, soc) ==
    [grid_import_kw |-> imp, grid_export_kw |-> exp, battery_charge_kw |-> chg,
     battery_discharge_kw |-> dis, soc_kwh |-> soc]

(***************************************************************************)
(* core/baseline.py                                                        *)
(***************************************************************************)
timestep_hours(run) == R(run.timestep_minutes, 60)

min_soc(battery) == Mul(battery.min_soc_frac, battery.capacity_kwh)
max_soc(battery) == Mul(battery.max_soc_frac, battery.capacity_kwh)
initial_soc(battery) == Mul(battery.initial_soc_frac, battery.capacity_kwh)

\* lines 44-49: the dispatch columns before the loop
BaselineInitialResult(ts, site) ==
    [k \in 1..Len_ts(ts) |-> Row(Zero, Zero, Zero, Zero, initial_soc(site.battery))]

\* lines 55-59: the SOC the step starts from (k is the 1-based row)
BaselinePrevSoc(res, site, k) ==
    IF k = 1 THEN initial_soc(site.battery) ELSE res[k - 1].soc_kwh

\* The divisions of one loop body that divide by zero and raise.  Two Python
\* floats raise ZeroDivisionError; a numpy.float64 numerator (every value read
\* back from the DataFrame, so soc at i > 0) gives inf or nan instead.
BaselineStepRaises(ts, site, dt, k) ==
    LET battery == site.battery
        net == Sub(ts.pv_kw[k], ts.load_kw[k])
    IN  \/ Gt(net, Zero) /\ k = 1 /\ Mul(dt, battery.charge_efficiency) = Zero
        \/ battery.discharge_efficiency = Zero

\* lines 71-75
BaselineMaxChargeNoHeadroom(battery, soc, dt) ==
    battery.max_charge_kw

BaselineMaxCharge(battery, soc, dt) ==
    LET headroom == Sub(max_soc(battery), soc)
        den == Mul(dt, battery.charge_efficiency)
    IN  PyMin(battery.max_charge_kw,
              IF den = Zero THEN NumpyDivByZero(headroom) ELSE Div(headroom, den))

\* lines 84-88
BaselineMaxDischargeNoFloor(battery, soc, dt) ==
    battery.max_discharge_kw

BaselineMaxDischarge(battery, soc, dt) ==
    PyMin(battery.max_discharge_kw,
          Div(Sub(soc, min_soc(battery)), Div(dt, battery.discharge_efficiency)))

\* lines 94-99: site caps clamp the grid flows
BaselineGridLimitIgnored(flow, cap) ==
    flow

BaselineGridLimit(flow, cap) ==
    IF cap # None THEN PyMin(flow, cap) ELSE flow

\* lines 108-112: the SOC clamp
BaselineClampSoc(battery, new_soc) ==
    PyMax(min_soc(battery), PyMin(max_soc(battery), new_soc))

\* lines 101-106: the SOC update before the clamp
BaselineNewSoc(battery, soc, charge_kw, discharge_kw, dt) ==
    Sub(Add(soc, Mul(Mul(charge_kw, dt), battery.charge_efficiency)),
        Div(Mul(discharge_kw, dt), battery.discharge_efficiency))

\* the battery left idle and the flows not netted: all load imported, all pv exported
BaselineRowGross(load, pv, site, soc, dt) ==
    Row(load, pv, Zero, Zero, soc)

\* lines 61-119: the row one loop body stores, given the SOC it starts from
BaselineRow(load, pv, site, soc, dt) ==
    LET battery == site.battery
        net == Sub(pv, load)
        surplus == Gt(net, Zero)
        charge_kw == IF surplus THEN PyMin(net, BaselineMaxCharge(battery, soc, dt)) ELSE Zero
        discharge_kw ==
            IF surplus THEN Zero
            ELSE PyMin(Neg(net), BaselineMaxDischarge(battery, soc, dt))
        grid_export_kw == IF surplus THEN Sub(net, charge_kw) ELSE Zero
        grid_import_kw == IF surplus THEN Zero ELSE Sub(Neg(net), discharge_kw)
        new_soc == BaselineNewSoc(battery, soc, charge_kw, discharge_kw, dt)
    IN  Row(BaselineGridLimit(grid_import_kw, site.max_grid_import_kw),
            BaselineGridLimit(grid_export_kw, site.max_grid_export_kw),
            charge_kw, discharge_kw, BaselineClampSoc(battery, new_soc))

Untouched ==
    UNCHANGED <<entry, site_config, run_config, timeseries, solver, metrics, frontier>>

\* compute_baseline_dispatch, one iteration of "for i in range(len(result))"
BaselineStep ==
    /\ pc = "baseline_loop"
    /\ i < Len_ts(timeseries)
    /\ LET k == i + 1
           dt == timestep_hours(run_config)
       IN  IF BaselineStepRaises(timeseries, site_config, dt, k)
           THEN /\ pc' = "raised"
                /\ err' = "ZeroDivisionError"
                /\ UNCHANGED <<result, i>>
           ELSE /\ result' = [result EXCEPT ![k] =
                       BaselineRow(timeseries.load_kw[k], timeseries.pv_kw[k], site_config,
                                   BaselinePrevSoc(result, site_config, k), dt)]
                /\ i' = i + 1
                /\ UNCHANGED <<pc, err>>
    /\ Untouched
    /\ UNCHANGED <<model, status, dispatch_df, log>>

\* compute_baseline_dispatch, line 121: the loop is over, return result
BaselineReturn ==
    /\ pc = "baseline_loop"
    /\ i = Len_ts(timeseries)
    /\ pc' = (IF entry = "run_backtest" THEN "compute_metrics" ELSE "returned")
    /\ Untouched
    /\ UNCHANGED <<result, i, model, status, dispatch_df, err, log>>

(***************************************************************************)
(* The linear program of model/build.py and model/constraints.py.          *)
(* A linopy variable name[t] is the number Var(name, t); a linear          *)
(* expression is a constant plus coefficient * variable terms; a           *)
(* constraint relates two expressions as the code writes them.             *)
(***************************************************************************)
VarNames ==
    <<"grid_import_kw", "grid_export_kw", "battery_charge_kw", "battery_discharge_kw",
      "soc_kwh">>

VarPos(name) == CHOOSE p \in 1..Len(VarNames) : VarNames[p] = name
Var(name, t) == Len(VarNames) * t + VarPos(name)
VarName(v) == VarNames[((v - 1) % Len(VarNames)) + 1]

Term(coef, v) == <<coef, v>>
Expr(const, terms) == [const |-> const, terms |-> terms]
Constraint(name, lhs, sense, rhs) == [name |-> name, lhs |-> lhs, sense |-> sense, rhs |-> rhs]

\* constraints.py lines 33-36
add_site_balance_swapped(T, load_kw, pv_kw) ==
    [t \in 1..T |->
        Constraint(<<"site_balance", t - 1>>,
            Expr(load_kw[t], <<Term(Num(1), Var("battery_charge_kw", t - 1)),
                               Term(Num(1), Var("grid_import_kw", t - 1))>>),
            "==",
            Expr(pv_kw[t], <<Term(Num(1), Var("battery_discharge_kw", t - 1)),
                             Term(Num(1), Var("grid_export_kw", t - 1))>>))]

add_site_balance(T, load_kw, pv_kw) ==
    [t \in 1..T |->
        Constraint(<<"site_balance", t - 1>>,
            Expr(load_kw[t], <<Term(Num(1), Var("battery_charge_kw", t - 1)),
                               Term(Num(1), Var("grid_export_kw", t - 1))>>),
            "==",
            Expr(pv_kw[t], <<Term(Num(1), Var("battery_discharge_kw", t - 1)),
                             Term(Num(1), Var("grid_import_kw", t - 1))>>))]

\* constraints.py lines 61-67
add_soc_bounds_max_only(T, battery) ==
    [n \in 1..T |->
        Constraint(<<"soc_max", n - 1>>, Expr(Zero, <<Term(Num(1), Var("soc_kwh", n - 1))>>),
                   "<=", Expr(max_soc(battery), <<>>))]

add_soc_bounds(T, battery) ==
    [n \in 1..(2 * T) |->
        LET t == (n - 1) \div 2
        IN  IF n % 2 = 1
            THEN Constraint(<<"soc_min", t>>, Expr(Zero, <<Term(Num(1), Var("soc_kwh", t))>>),
                            ">=", Expr(min_soc(battery), <<>>))
            ELSE Constraint(<<"soc_max", t>>, Expr(Zero, <<Term(Num(1), Var("soc_kwh", t))>>),
                            "<=", Expr(max_soc(battery), <<>>))]

\* constraints.py lines 69-74
add_power_limits(T, battery) ==
    [n \in 1..(2 * T) |->
        LET t == (n - 1) \div 2
        IN  IF n % 2 = 1
            THEN Constraint(<<"charge_limit", t>>,
                            Expr(Zero, <<Term(Num(1), Var("battery_charge_kw", t))>>),
                            "<=", Expr(battery.max_charge_kw, <<>>))
            ELSE Constraint(<<"discharge_limit", t>>,
                            Expr(Zero, <<Term(Num(1), Var("battery_discharge_kw", t))>>),
                            "<=", Expr(battery.max_discharge_kw, <<>>))]

\* constraints.py lines 76-91.  With discharge_efficiency = 0 the coefficient of
\* battery_discharge is not finite, if linopy builds the constraint at all.
add_soc_dynamics(T, battery, dt) ==
    [n \in 1..T |->
        LET t == n - 1
            chg == Term(Mul(battery.charge_efficiency, dt), Var("battery_charge_kw", t))
            dis == Term(Neg(IF battery.discharge_efficiency = Zero
                            THEN NumpyDivByZero(dt)
                            ELSE Div(dt, battery.discharge_efficiency)),
                        Var("battery_discharge_kw", t))
        IN  Constraint(<<"soc_dynamics", t>>,
                Expr(Zero, <<Term(Num(1), Var("soc_kwh", t))>>),
                "==",
                IF t = 0
                THEN Expr(initial_soc(battery), <<chg, dis>>)
                ELSE Expr(Zero, <<Term(Num(1), Var("soc_kwh", t - 1)), chg, dis>>))]

\* constraints.py lines 39-91
add_battery_constraints(T, battery, dt) ==
    add_soc_bounds(T, battery) \o add_power_limits(T, battery) \o add_soc_dynamics(T, battery, dt)

\* constraints.py lines 110-120
add_grid_constraints_export_only(T, site) ==
    IF site.max_grid_export_kw # None
    THEN [n \in 1..T |->
            Constraint(<<"grid_export_limit", n - 1>>,
                       Expr(Zero, <<Term(Num(1), Var("grid_export_kw", n - 1))>>),
                       "<=", Expr(site.max_grid_export_kw, <<>>))]
    ELSE <<>>

add_grid_constraints(T, site) ==
    (IF site.max_grid_import_kw # None
     THEN [n \in 1..T |->
             Constraint(<<"grid_import_limit", n - 1>>,
                        Expr(Zero, <<Term(Num(1), Var("grid_import_kw", n - 1))>>),
                        "<=", Expr(site.max_grid_import_kw, <<>>))]
     ELSE <<>>)
    \o
    (IF site.max_grid_export_kw # None
     THEN [n \in 1..T |->
             Constraint(<<"grid_export_limit", n - 1>>,
                        Expr(Zero, <<Term(Num(1), Var("grid_export_kw", n - 1))>>),
                        "<=", Expr(site.max_grid_export_kw, <<>>))]
     ELSE <<>>)

\* build.py lines 46-50: every variable family is created with lower=0
VariableLower(v) == Zero

\* build.py lines 30-43: a price column of the timeseries comes before the flat price
ImportPrice(run, ts) ==
    IF "import_price_gbp_per_kwh" \in ts.columns THEN ts.import_price_gbp_per_kwh
    ELSE [k \in 1..Len_ts(ts) |-> run.tariff.flat_import_price_gbp_per_kwh]
ExportPrice(run, ts) ==
    IF "export_price_gbp_per_kwh" \in ts.columns THEN ts.export_price_gbp_per_kwh
    ELSE [k \in 1..Len_ts(ts) |-> run.tariff.flat_export_price_gbp_per_kwh]

\* build.py lines 63-69: the scalar variable peak_demand_kw, numbered after the
\* 5 * T dispatch variables, and its constraints peak >= import[t]
PeakVar(T) == Len(VarNames) * T + 1
add_peak_constraints(T) ==
    [t \in 1..T |->
        Constraint(<<"peak_ge_import", t - 1>>,
                   Expr(Zero, <<Term(Num(1), PeakVar(T))>>),
                   ">=", Expr(Zero, <<Term(Num(1), Var("grid_import_kw", t - 1))>>))]

\* objective.py lines 39-59: import cost - export revenue + degradation cost
\* (+ peak * demand rate when a peak variable is passed), minimised
add_objective(T, import_price, export_price, dt, degradation, demand_rate, peak) ==
    LET StepTerms(t) ==
            <<Term(Mul(import_price[t], dt), Var("grid_import_kw", t - 1)),
              Term(Neg(Mul(export_price[t], dt)), Var("grid_export_kw", t - 1)),
              Term(Mul(dt, degradation), Var("battery_charge_kw", t - 1)),
              Term(Mul(dt, degradation), Var("battery_discharge_kw", t - 1))>>
        n == Len(VarNames) - 1   \* every family but soc_kwh has a term
        steps == [k \in 1..(n * T) |-> StepTerms(((k - 1) \div n) + 1)[((k - 1) % n) + 1]]
    IN  Expr(Zero, IF peak # None THEN Append(steps, Term(demand_rate, peak)) ELSE steps)

\* build.py lines 20-89, once the prices are found: variables, constraints, objective
ModelOf(site, run, ts) ==
    LET T == Len_ts(ts)
        dt == timestep_hours(run)
        peak == IF run.tariff.demand_charge_enabled THEN PeakVar(T) ELSE None
    IN  [built |-> TRUE,
         T |-> T,
         nvars |-> Len(VarNames) * T + (IF peak # None THEN 1 ELSE 0),
         constraints |->
             add_site_balance(T, ts.load_kw, ts.pv_kw)
             \o add_battery_constraints(T, site.battery, dt)
             \o add_grid_constraints(T, site)
             \o (IF peak # None THEN add_peak_constraints(T) ELSE <<>>),
         objective |->
             add_objective(T, ImportPrice(run, ts), ExportPrice(run, ts), dt,
                           site.battery.degradation_cost_gbp_per_kwh,
                           IF run.tariff.demand_charge_enabled
                           THEN run.tariff.demand_charge_gbp_per_kw ELSE Zero,
                           peak)]

(***************************************************************************)
(* The external LP solver, as far as the program relies on it: with status *)
(* "ok" it returns a point that satisfies every bound and constraint of    *)
(* the model it was given.  Points are taken from a finite grid.           *)
(***************************************************************************)
RECURSIVE SumTerms(_, _, _)
SumTerms(terms, x, n) ==
    IF n = 0 THEN Zero
    ELSE Add(SumTerms(terms, x, n - 1), Mul(terms[n][1], x[terms[n][2]]))

Value(e, x) == Add(e.const, SumTerms(e.terms, x, Len(e.terms)))

Holds(c, x) ==
    LET l == Value(c.lhs, x)
        r == Value(c.rhs, x)
    IN  CASE c.sense = "==" -> l = r
          [] c.sense = "<=" -> Le(l, r)
          [] c.sense = ">=" -> Ge(l, r)

Max2(a, b) == IF a > b THEN a ELSE b
RECURSIVE LastOf(_, _)
LastOf(terms, n) == IF n = 0 THEN 0 ELSE Max2(terms[n][2], LastOf(terms, n - 1))
\* the highest-numbered variable a constraint mentions
LastVar(c) == Max2(LastOf(c.lhs.terms, Len(c.lhs.terms)), LastOf(c.rhs.terms, Len(c.rhs.terms)))

GridPower == {Num(k) : k \in -1..2}
GridSoc == {R(k, 4) : k \in -1..8}
Grid(v) == IF VarName(v) = "soc_kwh" THEN GridSoc ELSE GridPower

\* the constraints decided once variable v has a value
Closing(m) ==
    [v \in 1..m.nvars |->
        {n \in 1..Len(m.constraints) : LastVar(m.constraints[n]) = v}]

\* the grid values variable v can take after x: when an equality constraint
\* closes at v, only its root (the constraint is linear in v)
Candidates(m, closing, x) ==
    LET v == Len(x) + 1
        eqs == {n \in closing[v] : m.constraints[n].sense = "=="}
    IN  IF eqs = {} THEN Grid(v)
        ELSE LET c == m.constraints[CHOOSE n \in eqs : TRUE]
                 r0 == Sub(Value(c.lhs, Append(x, Zero)), Value(c.rhs, Append(x, Zero)))
                 r1 == Sub(Value(c.lhs, Append(x, Num(1))), Value(c.rhs, Append(x, Num(1))))
             IN  IF r1 = r0 THEN Grid(v)
                 ELSE {Div(r0, Sub(r0, r1))} \cap Grid(v)

RECURSIVE Extend(_, _, _)
Extend(m, closing, x) ==
    LET v == Len(x) + 1
    IN  IF v > m.nvars THEN {x}
        ELSE UNION {Extend(m, closing, Append(x, val)) :
                      val \in {g \in Candidates(m, closing, x) :
                                 /\ Ge(g, VariableLower(v))
                                 /\ \A n \in closing[v] : Holds(m.constraints[n], Append(x, g))}}

\* every grid point that satisfies the model
FeasiblePoints(m) == Extend(m, Closing(m), <<>>)

\* A direction along which every constraint stays satisfied: the constraints
\* without their constants.  The only variables of the model without an upper
\* bound are grid import, grid export and the peak, so the directions with
\* components 0 and 1 generate them all.
HoldsAlong(c, d) ==
    LET l == SumTerms(c.lhs.terms, d, Len(c.lhs.terms))
        r == SumTerms(c.rhs.terms, d, Len(c.rhs.terms))
    IN  CASE c.sense = "==" -> l = r
          [] c.sense = "<=" -> Le(l, r)
          [] c.sense = ">=" -> Ge(l, r)

RECURSIVE ExtendRay(_, _, _)
ExtendRay(m, closing, d) ==
    LET v == Len(d) + 1
    IN  IF v > m.nvars THEN {d}
        ELSE UNION {ExtendRay(m, closing, Append(d, val)) :
                      val \in {g \in {Zero, Num(1)} :
                                 \A n \in closing[v] :
                                     HoldsAlong(m.constraints[n], Append(d, g))}}

\* some direction the constraints allow lowers the objective
Improving(m) ==
    \E d \in ExtendRay(m, Closing(m), <<>>) :
        Lt(SumTerms(m.objective.terms, d, Len(m.objective.terms)), Zero)

\* the model is feasible and its objective decreases without limit
Unbounded(m) == FeasiblePoints(m) # {} /\ Improving(m)

\* the feasible grid points of least objective value; none when the model is
\* infeasible or unbounded
OptimalPoints(m) ==
    LET F == FeasiblePoints(m)
        costs == {Value(m.objective, y) : y \in F}
        best == CHOOSE c \in costs : \A e \in costs : Le(c, e)
    IN  IF F = {} \/ Improving(m) THEN {}
        ELSE {x \in F : Value(m.objective, x) = best}

\* solve.py lines 50-56: the dispatch columns read off the solution
DispatchOf(x, T) ==
    [t \in 1..T |->
        Row(x[Var("grid_import_kw", t - 1)], x[Var("grid_export_kw", t - 1)],
            x[Var("battery_charge_kw", t - 1)], x[Var("battery_discharge_kw", t - 1)],
            x[Var("soc_kwh", t - 1)])]

\* every coefficient of the model is a finite number
ModelFinite(m) ==
    \A n \in 1..Len(m.constraints) :
        \A side \in {m.constraints[n].lhs, m.constraints[n].rhs} :
            \A k \in 1..Len(side.terms) : IsFinite(side.terms[k][1])

\* A defective solver reports "ok" for a point that is a feasible point with one
\* value of the last step moved one grid step down.
GridStep(v) == IF VarName(v) = "soc_kwh" THEN R(1, 4) ELSE Num(1)
DefectivePoints(m) ==
    IF m.T = 0 THEN {}
    ELSE {[x EXCEPT ![v] = Sub(x[v], GridStep(v))] :
            x \in FeasiblePoints(m), v \in (m.nvars - Len(VarNames) + 1)..m.nvars}

(***************************************************************************)
(* core/validate.py                                                        *)
(***************************************************************************)
NUMERICAL_TOLERANCE == R(1, 1000000)

\* a check that asks for the power columns only
validate_timeseries_power_only(ts) ==
    IF {"load_kw", "pv_kw"} \ ts.columns # {} THEN "ValidationError" ELSE NoException

\* validate.py lines 24-27: the required columns (the index and the values of
\* every timeseries of this model are well-formed)
validate_timeseries(ts) ==
    IF AllColumns \ ts.columns # {} THEN "ValidationError" ELSE NoException

AnyRow(df, P(_)) == \E t \in 1..Len(df) : P(df[t])

\* validate.py lines 83-119: the first check that fails, or NoException
validate_dispatch_result(df, site) ==
    LET battery == site.battery
        tol == NUMERICAL_TOLERANCE
        Negative(col) == AnyRow(df, LAMBDA r : Lt(r[col], Neg(tol)))
        Above(col, limit) == AnyRow(df, LAMBDA r : Gt(r[col], Add(limit, tol)))
    IN  IF Negative("grid_import_kw") THEN "grid_import_kw has negative values"
        ELSE IF Negative("grid_export_kw") THEN "grid_export_kw has negative values"
        ELSE IF Negative("battery_charge_kw") THEN "battery_charge_kw has negative values"
        ELSE IF Negative("battery_discharge_kw") THEN "battery_discharge_kw has negative values"
        ELSE IF AnyRow(df, LAMBDA r : Lt(r.soc_kwh, Sub(min_soc(battery), tol)))
             THEN "SOC below minimum"
        ELSE IF Above("soc_kwh", max_soc(battery)) THEN "SOC above maximum"
        ELSE IF Above("battery_charge_kw", battery.max_charge_kw)
             THEN "Charge power exceeds limit"
        ELSE IF Above("battery_discharge_kw", battery.max_discharge_kw)
             THEN "Discharge power exceeds limit"
        ELSE IF site.max_grid_import_kw # None /\ Above("grid_import_kw", site.max_grid_import_kw)
             THEN "Grid import exceeds limit"
        ELSE IF site.max_grid_export_kw # None /\ Above("grid_export_kw", site.max_grid_export_kw)
             THEN "Grid export exceeds limit"
        ELSE NoException

(***************************************************************************)
(* model/build.py, model/solve.py                                          *)
(***************************************************************************)
\* build.py lines 30-43: the exception the price lookup raises, or NoException
PriceLookup(run, ts) ==
    IF /\ "import_price_gbp_per_kwh" \notin ts.columns
       /\ run.tariff.flat_import_price_gbp_per_kwh = None
    THEN "ValueError"
    ELSE IF /\ "export_price_gbp_per_kwh" \notin ts.columns
            /\ run.tariff.flat_export_price_gbp_per_kwh = None
    THEN "ValueError"
    ELSE NoException

\* build.py lines 20-90: what build_model can do: raise, or return a model.
\* Dividing a linopy expression by discharge_efficiency = 0 raises
\* ZeroDivisionError or yields an infinite coefficient, depending on the linopy
\* release; both outcomes are kept.
build_model(site, run, ts) ==
    IF PriceLookup(run, ts) # NoException
    THEN {[raises |-> PriceLookup(run, ts), model |-> NoModel]}
    ELSE IF Len_ts(ts) > 0 /\ site.battery.discharge_efficiency = Zero
    THEN {[raises |-> "ZeroDivisionError", model |-> NoModel],
          [raises |-> NoException, model |-> ModelOf(site, run, ts)]}
    ELSE {[raises |-> NoException, model |-> ModelOf(site, run, ts)]}

\* where the caller continues after a call returns
AfterBuild == "solve_model"
AfterSolve == IF entry = "run_backtest" THEN "validate_dispatch_result" ELSE "returned"

BuildModel ==
    /\ pc = "build_model"
    /\ log' = Append(log, "build_model")
    /\ \E out \in build_model(site_config, run_config, timeseries) :
          IF out.raises # NoException
          THEN pc' = "raised" /\ err' = out.raises /\ UNCHANGED model
          ELSE pc' = AfterBuild /\ model' = out.model /\ UNCHANGED err
    /\ Untouched
    /\ UNCHANGED <<result, i, status, dispatch_df>>

\* solve.py lines 34-41: model.solve raises; solve_model re-raises as RuntimeError
SolveRaises ==
    /\ pc = "solve_model"
    /\ log' = Append(log, "solve_model")
    /\ status' = "raised"
    /\ err' = "RuntimeError"
    /\ pc' = "raised"
    /\ Untouched
    /\ UNCHANGED <<result, i, model, dispatch_df>>

\* the values model.status takes once model.solve has returned: "ok" for an
\* optimum, "warning" for an infeasible or unbounded model and for a stop at
\* the time limit, the others for a solver that broke off
SolverStatuses == {"ok", "warning", "error", "aborted", "unknown"}
\* only an outright error counted as failure
status_raises_on_error(st) == st \notin {"ok", "warning"}
\* solve.py line 46: model.status != "ok"
status_raises(st) == st # "ok"

\* solve.py lines 46-47: model.solve returns with a status other than "ok"
\* (infeasible, unbounded, time limit reached)
SolveNotOk ==
    /\ pc = "solve_model"
    /\ log' = Append(log, "solve_model")
    /\ \E st \in SolverStatuses : status_raises(st) /\ status' = st
    /\ err' = "RuntimeError"
    /\ pc' = "raised"
    /\ Untouched
    /\ UNCHANGED <<result, i, model, dispatch_df>>

\* solve.py lines 49-67: status "ok"; the solution is extracted and returned
SolveOk ==
    /\ pc = "solve_model"
    /\ ModelFinite(model)
    /\ log' = Append(log, "solve_model")
    /\ \E x \in (IF solver = "defective" THEN DefectivePoints(model)
                 ELSE OptimalPoints(model)) :
          dispatch_df' = DispatchOf(x, model.T)
    /\ \E st \in SolverStatuses : ~status_raises(st) /\ status' = st
    /\ pc' = AfterSolve
    /\ Untouched
    /\ UNCHANGED <<result, i, model, err>>

(***************************************************************************)
(* core/metrics.py                                                         *)
(***************************************************************************)
\* pandas Series.sum(): 0 for an empty series
RECURSIVE SeriesSum(_, _)
SeriesSum(f, n) == IF n = 0 THEN Zero ELSE Add(SeriesSum(f, n - 1), f[n])

\* pandas Series.max(): nan for an empty series
RECURSIVE SeriesMaxTo(_, _)
SeriesMaxTo(f, n) == IF n = 1 THEN f[1] ELSE PyMax(SeriesMaxTo(f, n - 1), f[n])
SeriesMax(f) == IF Len(f) = 0 THEN NaN ELSE SeriesMaxTo(f, Len(f))

\* backtest.py lines 54-56 and 63-65: the price columns of the timeseries are
\* merged into a dispatch frame
MergePrices(df, ts) ==
    [t \in 1..Len(df) |->
        [grid_import_kw |-> df[t].grid_import_kw,
         grid_export_kw |-> df[t].grid_export_kw,
         battery_charge_kw |-> df[t].battery_charge_kw,
         battery_discharge_kw |-> df[t].battery_discharge_kw,
         soc_kwh |-> df[t].soc_kwh,
         import_price_gbp_per_kwh |-> ts.import_price_gbp_per_kwh[t],
         export_price_gbp_per_kwh |-> ts.export_price_gbp_per_kwh[t]]]

\* the demand charge applied whether or not it is enabled
compute_cost_charge_always(dispatch, site, run, dt) ==
    LET n == Len(dispatch)
        energy(t) ==
            Sub(Mul(dispatch[t].grid_import_kw, dispatch[t].import_price_gbp_per_kwh),
                Mul(dispatch[t].grid_export_kw, dispatch[t].export_price_gbp_per_kwh))
        wear(t) ==
            Mul(Add(dispatch[t].battery_charge_kw, dispatch[t].battery_discharge_kw),
                site.battery.degradation_cost_gbp_per_kwh)
    IN  Add(SeriesSum([t \in 1..n |-> Mul(Add(energy(t), wear(t)), dt)], n),
            Mul(SeriesMax([t \in 1..n |-> dispatch[t].grid_import_kw]),
                run.tariff.demand_charge_gbp_per_kw))

\* metrics.py lines 16-53
compute_cost(dispatch, site, run, dt) ==
    LET n == Len(dispatch)
        import_cost ==
            SeriesSum([t \in 1..n |-> Mul(Mul(dispatch[t].grid_import_kw,
                                              dispatch[t].import_price_gbp_per_kwh), dt)], n)
        export_revenue ==
            SeriesSum([t \in 1..n |-> Mul(Mul(dispatch[t].grid_export_kw,
                                              dispatch[t].export_price_gbp_per_kwh), dt)], n)
        demand_charge ==
            IF run.tariff.demand_charge_enabled
            THEN Mul(SeriesMax([t \in 1..n |-> dispatch[t].grid_import_kw]),
                     run.tariff.demand_charge_gbp_per_kw)
            ELSE Zero
        battery_throughput_kwh ==
            SeriesSum([t \in 1..n |-> Mul(Add(dispatch[t].battery_charge_kw,
                                              dispatch[t].battery_discharge_kw), dt)], n)
        degradation_cost ==
            Mul(battery_throughput_kwh, site.battery.degradation_cost_gbp_per_kwh)
    IN  Add(Add(Sub(import_cost, export_revenue), demand_charge), degradation_cost)

\* the percentage worked out whatever the baseline cost
savings_pct_unguarded(savings_gbp, baseline_cost) ==
    Mul(IF baseline_cost = Zero THEN NumpyDivByZero(savings_gbp)
        ELSE Div(savings_gbp, baseline_cost), Num(100))
\* metrics.py line 79
savings_pct(savings_gbp, baseline_cost) ==
    IF baseline_cost # Zero THEN Mul(Div(savings_gbp, baseline_cost), Num(100)) ELSE Zero

\* metrics.py lines 56-111
compute_metrics(optimal_dispatch, baseline_dispatch, site, run, dt) ==
    LET n == Len(optimal_dispatch)
        optimal_cost == compute_cost(optimal_dispatch, site, run, dt)
        baseline_cost == compute_cost(baseline_dispatch, site, run, dt)
        savings_gbp == Sub(baseline_cost, optimal_cost)
        optimal_peak_kw == SeriesMax([t \in 1..n |-> optimal_dispatch[t].grid_import_kw])
        baseline_peak_kw ==
            SeriesMax([t \in 1..Len(baseline_dispatch) |->
                          baseline_dispatch[t].grid_import_kw])
        battery_throughput_kwh ==
            SeriesSum([t \in 1..n |-> Mul(Add(optimal_dispatch[t].battery_charge_kw,
                                              optimal_dispatch[t].battery_discharge_kw),
                                          dt)], n)
    IN  [optimal_cost_gbp |-> optimal_cost,
         baseline_cost_gbp |-> baseline_cost,
         savings_gbp |-> savings_gbp,
         savings_pct |-> savings_pct(savings_gbp, baseline_cost),
         optimal_peak_import_kw |-> optimal_peak_kw,
         baseline_peak_import_kw |-> baseline_peak_kw,
         peak_reduction_kw |-> Sub(baseline_peak_kw, optimal_peak_kw),
         battery_throughput_kwh |-> battery_throughput_kwh,
         battery_cycles |-> Div(battery_throughput_kwh, Mul(Num(2), site.battery.capacity_kwh)),
         total_import_kwh |->
             SeriesSum([t \in 1..n |-> Mul(optimal_dispatch[t].grid_import_kw, dt)], n),
         total_export_kwh |->
             SeriesSum([t \in 1..n |-> Mul(optimal_dispatch[t].grid_export_kw, dt)], n)]

(***************************************************************************)
(* runners/backtest.py and the direct call of validate_dispatch_result      *)
(***************************************************************************)
\* backtest.py lines 29-38: validate_timeseries, then the summary print, which
\* reads timeseries.index[0]
BacktestValidateInput ==
    /\ pc = "validate_timeseries"
    /\ log' = Append(log, "validate_timeseries")
    /\ IF validate_timeseries(timeseries) # NoException
       THEN pc' = "raised" /\ err' = validate_timeseries(timeseries)
       ELSE IF Len_ts(timeseries) = 0
       THEN pc' = "raised" /\ err' = "IndexError"
       ELSE pc' = "build_model" /\ UNCHANGED err
    /\ Untouched
    /\ UNCHANGED <<result, i, model, status, dispatch_df>>

\* backtest.py lines 50-61: validate_dispatch_result on the solver's dispatch; when
\* it returns, the prices are merged and compute_baseline_dispatch is entered
\* (baseline.py lines 41-49).  Called directly, it returns to its caller.
ValidateDispatchIgnored ==
    /\ pc = "validate_dispatch_result"
    /\ log' = Append(log, "validate_dispatch_result")
    /\ IF entry = "run_backtest"
       THEN /\ pc' = "baseline_loop"
            /\ result' = BaselineInitialResult(timeseries, site_config)
            /\ i' = 0
            /\ UNCHANGED err
       ELSE pc' = "returned" /\ UNCHANGED <<result, i, err>>
    /\ Untouched
    /\ UNCHANGED <<model, status, dispatch_df>>

ValidateDispatch ==
    /\ pc = "validate_dispatch_result"
    /\ log' = Append(log, "validate_dispatch_result")
    /\ IF validate_dispatch_result(dispatch_df, site_config) # NoException
       THEN pc' = "raised" /\ err' = "ValidationError" /\ UNCHANGED <<result, i>>
       ELSE IF entry = "run_backtest"
       THEN /\ pc' = "baseline_loop"
            /\ result' = BaselineInitialResult(timeseries, site_config)
            /\ i' = 0
            /\ UNCHANGED err
       ELSE pc' = "returned" /\ UNCHANGED <<result, i, err>>
    /\ Untouched
    /\ UNCHANGED <<model, status, dispatch_df>>

\* backtest.py lines 63-69
BacktestMetrics ==
    /\ pc = "compute_metrics"
    /\ log' = Append(log, "compute_metrics")
    /\ metrics' = compute_metrics(MergePrices(dispatch_df, timeseries),
                                  MergePrices(result, timeseries),
                                  site_config, run_config, timestep_hours(run_config))
    /\ pc' = IF entry = "run_backtest" THEN "write_results" ELSE "returned"
    /\ UNCHANGED <<entry, site_config, run_config, timeseries, solver, frontier>>
    /\ UNCHANGED <<result, i, model, status, dispatch_df, err>>

\* backtest.py lines 76-80
BacktestWrite ==
    /\ pc = "write_results"
    /\ log' = Append(log, "write_results")
    /\ pc' = "returned"
    /\ Untouched
    /\ UNCHANGED <<result, i, model, status, dispatch_df, err>>

(***************************************************************************)
(* The calls a run starts from.                                            *)
(***************************************************************************)
SocTriple(battery) == <<battery.min_soc_frac, battery.max_soc_frac, battery.initial_soc_frac>>
EtaPair(battery) == <<battery.charge_efficiency, battery.discharge_efficiency>>
Caps(site) == <<site.max_grid_import_kw, site.max_grid_export_kw>>
NoFlatTariff ==
    [flat_import_price_gbp_per_kwh |-> None, flat_export_price_gbp_per_kwh |-> None,
     demand_charge_enabled |-> FALSE, demand_charge_gbp_per_kw |-> Zero]
NoDemandCharge(run) ==
    ~run.tariff.demand_charge_enabled /\ run.tariff.demand_charge_gbp_per_kw = Zero
NoDegradation(site) == site.battery.degradation_cost_gbp_per_kwh = Zero

\* the sites the LP is solved for
SolveSites ==
    {s \in {c \in SiteConfig : NoDegradation(c)} :
        \/ /\ EtaPair(s.battery) = <<Num(1), R(1, 2)>>
           /\ SocTriple(s.battery) \in {<<Zero, Num(1), R(1, 2)>>,
                                        <<R(1, 2), Num(1), R(1, 2)>>,
                                        <<Num(1), Num(1), Zero>>}
           /\ Caps(s) \in {<<None, None>>, <<Num(1), Num(1)>>}
        \/ /\ EtaPair(s.battery) = <<R(1, 2), Num(1)>>
           /\ SocTriple(s.battery) = <<Zero, Num(1), R(1, 2)>>
           /\ Caps(s) = <<None, None>>}

\* the timeseries the LP is solved for: at each step load or PV, not both
SolveTimeseries(cols) ==
    {ts \in Timeseries(cols) :
        \A t \in 1..Len_ts(ts) : ts.load_kw[t] = Zero \/ ts.pv_kw[t] = Zero}

\* the sites build_model is tried on with every source of prices
PriceSites ==
    {s \in {c \in SiteConfig : NoDegradation(c)} :
        /\ s.battery.charge_efficiency = Num(1)
        /\ s.battery.discharge_efficiency \in {Zero, R(1, 2)}
        /\ SocTriple(s.battery) = <<Zero, Num(1), R(1, 2)>>
        /\ Caps(s) = <<None, None>>}

\* a well-formed site without grid caps, and timeseries whose import price is
\* negative at the first step
NegativePriceSites ==
    {s \in SolveSites :
        /\ EtaPair(s.battery) = <<Num(1), R(1, 2)>>
        /\ SocTriple(s.battery) = <<Zero, Num(1), R(1, 2)>>
        /\ Caps(s) = <<None, None>>}
NegativePriceTimeseries ==
    {ts \in UNION {[load_kw : PowerSeqs(n), pv_kw : PowerSeqs(n),
                    import_price_gbp_per_kwh :
                        {[k \in 1..n |-> IF k = 1 THEN Num(-1) ELSE Num(2)]},
                    export_price_gbp_per_kwh : {[k \in 1..n |-> p] : p \in Prices},
                    columns : {AllColumns}] : n \in 1..MaxT} :
        \A t \in 1..Len_ts(ts) : ts.load_kw[t] = Zero \/ ts.pv_kw[t] = Zero}

\* the sites run_backtest is run for; the last starts at min_soc under grid caps
BacktestSites ==
    {s \in {c \in SiteConfig : NoDegradation(c)} :
        \/ /\ EtaPair(s.battery) = <<Num(1), R(1, 2)>>
           /\ SocTriple(s.battery) = <<Zero, Num(1), R(1, 2)>>
           /\ Caps(s) \in {<<None, None>>, <<Num(1), Num(1)>>}
        \/ /\ EtaPair(s.battery) = <<Num(1), Num(1)>>
           /\ SocTriple(s.battery) = <<R(1, 2), Num(1), R(1, 2)>>
           /\ Caps(s) = <<Num(1), Num(1)>>}

ValidateSites ==
    {s \in SolveSites :
        /\ EtaPair(s.battery) = <<Num(1), R(1, 2)>>
        /\ SocTriple(s.battery) = <<R(1, 2), Num(1), R(1, 2)>>}

ColumnSets ==
    {AllColumns \ missing : missing \in SUBSET {"import_price_gbp_per_kwh",
                                                "export_price_gbp_per_kwh"}}

\* any one-row dispatch a caller may hand to validate_dispatch_result
AnyDispatch ==
    {<<Row(imp, exp, chg, dis, soc)>> :
        imp \in GridPower, exp \in GridPower, chg \in GridPower, dis \in GridPower,
        soc \in {R(k, 2) : k \in 1..5}}

NoFrontier ==
    /\ cfg = None /\ n_points = 0 /\ linprog = {}
    /\ peak_min = Zero /\ peak_max = Zero /\ unconstrained = None
    /\ front = <<>> /\ calls = <<>> /\ preference = Zero /\ selected = None

Fresh ==
    /\ NoFrontier
    /\ metrics = None
    /\ model = NoModel
    /\ status = "not_called"
    /\ err = NoException
    /\ log = <<>>

\* compute_baseline_dispatch(timeseries, site_config, timestep_hours)
InitBaseline ==
    /\ entry = "compute_baseline_dispatch"
    /\ site_config \in {s \in SiteConfig : NoDegradation(s)}
    /\ run_config \in {r \in RunConfig : r.tariff = NoFlatTariff}
    /\ timeseries \in Timeseries(AllColumns)
    /\ solver = "in_contract"
    /\ result = BaselineInitialResult(timeseries, site_config)
    /\ i = 0
    /\ pc = "baseline_loop"
    /\ dispatch_df = None
    /\ Fresh

\* build_model(site, run, ts), then solve_model(model, run, ts.index)
InitBuildSolve ==
    /\ entry = "build_model"
    /\ site_config \in SolveSites \cup PriceSites
    /\ run_config \in {r \in RunConfig : r.timestep_minutes = 30 /\ NoDemandCharge(r)}
    /\ \/ /\ site_config \in SolveSites
          /\ run_config.tariff = NoFlatTariff
          /\ timeseries \in SolveTimeseries(AllColumns)
       \/ /\ site_config \in PriceSites
          /\ timeseries \in UNION {SolveTimeseries(cols) : cols \in ColumnSets}
          /\ Len_ts(timeseries) <= 1
       \/ /\ site_config \in NegativePriceSites
          /\ run_config.tariff = NoFlatTariff
          /\ timeseries \in NegativePriceTimeseries
    /\ solver = "in_contract"
    /\ result = None
    /\ i = 0
    /\ pc = "build_model"
    /\ dispatch_df = None
    /\ Fresh

\* run_backtest(bundle_path), after load_bundle
InitBacktest ==
    /\ entry = "run_backtest"
    /\ site_config \in BacktestSites
    /\ run_config \in {r \in RunConfig :
                          /\ r.timestep_minutes = 30
                          /\ NoDemandCharge(r)
                          /\ (r.tariff.flat_import_price_gbp_per_kwh = None)
                               = (r.tariff.flat_export_price_gbp_per_kwh = None)}
    /\ timeseries \in UNION {SolveTimeseries(cols) : cols \in ColumnSets}
    /\ timeseries.columns = AllColumns => run_config.tariff = NoFlatTariff
    /\ solver \in {"in_contract", "defective"}
    /\ result = None
    /\ i = 0
    /\ pc = "validate_timeseries"
    /\ dispatch_df = None
    /\ Fresh

\* validate_dispatch_result(df, site_config) on a dispatch for a one-step timeseries
InitValidate ==
    /\ entry = "validate_dispatch_result"
    /\ site_config \in ValidateSites
    /\ run_config \in {r \in RunConfig : r.timestep_minutes = 30 /\ r.tariff = NoFlatTariff}
    /\ timeseries \in {ts \in Timeseries(AllColumns) : Len_ts(ts) = 1}
    /\ solver = "in_contract"
    /\ result = None
    /\ i = 0
    /\ pc = "validate_dispatch_result"
    /\ dispatch_df \in AnyDispatch
    /\ Fresh

(***************************************************************************)
(* multi_objective_bess.py: the epsilon-constraint sweep over the peak     *)
(* import limit.                                                           *)
(***************************************************************************)
\* Config, lines 26-40: a plain dataclass, no field is validated
ConfigSocFracs == {<<Zero, Num(1), Zero>>, <<Zero, Num(1), R(1, 2)>>, <<R(1, 2), Num(1), Zero>>}
Config ==
    {[capacity_kwh |-> Num(2), max_charge_kw |-> Num(1), max_discharge_kw |-> Num(1),
      efficiency |-> Num(1), min_soc_frac |-> f[1], max_soc_frac |-> f[2],
      initial_soc_frac |-> f[3], demand_charge_per_kw |-> Num(1),
      timestep_hours |-> Num(1)] : f \in ConfigSocFracs}

\* the arrays load, pv, import_price and export_price the script is run on
ParetoLoads == {<<Zero, Zero>>, <<Num(1), Num(1)>>, <<Num(2), Zero>>, <<Num(1), Num(2)>>}
ParetoPv == {<<Zero, Zero>>, <<Num(1), Zero>>}
ParetoImportPrices == {<<Num(1), Num(1)>>, <<Num(1), Num(3)>>}
ParetoTimeseries ==
    [load_kw : ParetoLoads, pv_kw : ParetoPv,
     import_price_gbp_per_kwh : ParetoImportPrices,
     export_price_gbp_per_kwh : {<<Zero, Zero>>},
     columns : {AllColumns}]

\* lines 96-143: the LP of solve_with_peak_limit.  The script lays x out as
\* five blocks of T; here the five variables of a step stay together.
PeakLimitModel(c, ts, peak_limit) ==
    LET T == Len_ts(ts)
        dt == c.timestep_hours
        soc_hi == Mul(c.capacity_kwh, c.max_soc_frac)
        soc_lo == Mul(c.capacity_kwh, c.min_soc_frac)
        soc_0 == Mul(c.capacity_kwh, c.initial_soc_frac)
        imp(t) == Var("grid_import_kw", t)
        exp(t) == Var("grid_export_kw", t)
        chg(t) == Var("battery_charge_kw", t)
        dis(t) == Var("battery_discharge_kw", t)
        soc(t) == Var("soc_kwh", t)
        One(v) == Expr(Zero, <<Term(Num(1), v)>>)
        Const(k) == Expr(k, <<>>)
        \* lines 137-143: upper bounds of import, charge, discharge and soc
        Bounds(t) ==
            <<Constraint(<<"ub_import", t>>, One(imp(t)), "<=", Const(peak_limit)),
              Constraint(<<"ub_charge", t>>, One(chg(t)), "<=", Const(c.max_charge_kw)),
              Constraint(<<"ub_discharge", t>>, One(dis(t)), "<=", Const(c.max_discharge_kw)),
              Constraint(<<"ub_soc", t>>, One(soc(t)), "<=", Const(c.capacity_kwh))>>
        \* lines 110-116: -imp + exp + chg - dis = pv - load
        Balance(t) ==
            Constraint(<<"balance", t>>,
                Expr(Zero, <<Term(Num(-1), imp(t)), Term(Num(1), exp(t)),
                             Term(Num(1), chg(t)), Term(Num(-1), dis(t))>>),
                "==", Const(Sub(ts.pv_kw[t + 1], ts.load_kw[t + 1])))
        \* lines 118-125: soc[t] - chg*eff*dt + dis*dt/eff - soc[t-1] = 0 (init_soc at t = 0)
        Dynamics(t) ==
            Constraint(<<"soc_dynamics", t>>,
                Expr(Zero, <<Term(Num(1), soc(t)),
                             Term(Neg(Mul(c.efficiency, dt)), chg(t)),
                             Term(Div(dt, c.efficiency), dis(t))>>
                           \o (IF t = 0 THEN <<>> ELSE <<Term(Num(-1), soc(t - 1))>>)),
                "==", Const(IF t = 0 THEN soc_0 ELSE Zero))
        \* lines 128-134: soc <= max_soc, -soc <= -min_soc
        SocLimits(t) ==
            <<Constraint(<<"soc_max", t>>, One(soc(t)), "<=", Const(soc_hi)),
              Constraint(<<"soc_min", t>>, Expr(Zero, <<Term(Num(-1), soc(t))>>), "<=",
                         Const(Neg(soc_lo)))>>
        Step(t) == Bounds(t) \o <<Balance(t), Dynamics(t)>> \o SocLimits(t)
        per == Len(Step(0))
        \* lines 97-100: cost of import less revenue of export
        Cost(t) ==
            <<Term(Mul(ts.import_price_gbp_per_kwh[t + 1], dt), imp(t)),
              Term(Neg(Mul(ts.export_price_gbp_per_kwh[t + 1], dt)), exp(t))>>
    IN  [built |-> TRUE,
         T |-> T,
         nvars |-> Len(VarNames) * T,
         constraints |-> [k \in 1..(per * T) |-> Step((k - 1) \div per)[((k - 1) % per) + 1]],
         objective |->
             Expr(Zero, [k \in 1..(2 * T) |-> Cost((k - 1) \div 2)[((k - 1) % 2) + 1]])]

\* line 151: actual_peak = np.max(x[:T])
ActualPeak(x, T) == SeriesMax([t \in 1..T |-> x[Var("grid_import_kw", t - 1)]])

\* line 189: the peak limit of the unconstrained solve
UnconstrainedLimit == Num(1000)

\* What linprog can answer for one (cfg, arrays): the realised peak and the
\* objective value of every dispatch feasible under the widest limit the
\* script ever asks for.  A smaller limit only tightens the bound on import.
LinprogTable(c, ts) ==
    LET m == PeakLimitModel(c, ts, UnconstrainedLimit)
    IN  {<<ActualPeak(x, m.T), Value(m.objective, x)>> : x \in FeasiblePoints(m)}

\* lines 43-49 and 154-159
ParetoPoint(c, fun, actual_peak) ==
    [energy_cost |-> fun, peak_demand_kw |-> actual_peak,
     total_cost |-> Add(fun, Mul(actual_peak, c.demand_charge_per_kw))]

\* lines 145-159: the points solve_with_peak_limit may return at a peak limit,
\* one for each optimal dispatch; {None} when linprog does not succeed
solve_with_peak_limit(table, c, peak_limit) ==
    LET within == {r \in table : LeW(r[1], peak_limit)}
    IN  IF within = {} THEN {None}
        ELSE {ParetoPoint(c, r[2], r[1]) :
                r \in {q \in within : \A o \in within : Le(q[2], o[2])}}

\* lines 147-148: solve_with_peak_limit returns a point, not None
Feasible(table, peak_limit) == \E r \in table : LeW(r[1], peak_limit)

\* line 180
BisectionIterations == 20
\* line 176
PeakFloor == R(1, 10)
MaxW(a, b) == IF LtW(a, b) THEN b ELSE a
RECURSIVE NetLoadMax(_, _)
NetLoadMax(ts, n) ==
    IF n = 1 THEN Sub(ts.load_kw[1], ts.pv_kw[1])
    ELSE MaxW(NetLoadMax(ts, n - 1), Sub(ts.load_kw[n], ts.pv_kw[n]))
\* line 176: max(np.max(net_load), 0.1)
InitialPeakMax(ts) == MaxW(NetLoadMax(ts, Len_ts(ts)), PeakFloor)

\* the upper end taken for the midpoint
HalfUpper(a, b) == b
\* line 181: (peak_min + peak_max) / 2
Half(a, b) == CHOOSE h \in {MulW(s, R(1, 2)) : s \in {AddW(a, b)}} : TRUE

\* line 186: peak_min = peak_max, the value taken as the minimum feasible peak
MinFeasiblePeakLower(lo, hi) == lo
MinFeasiblePeak(lo, hi) == hi

\* the bounds moved the wrong way round
BisectUpdateSwapped(lo, hi, mid, ok) == IF ok THEN <<mid, hi>> ELSE <<lo, mid>>
\* lines 182-185: <<peak_min, peak_max>> after the solve at mid
BisectUpdate(lo, hi, mid, ok) == IF ok THEN <<lo, mid>> ELSE <<mid, hi>>

\* lines 180-185, one pass of the loop
Bisect ==
    /\ entry = "compute_pareto_front"
    /\ pc = "bisection"
    /\ i < BisectionIterations
    /\ \E mid \in {Half(peak_min, peak_max)} :
           /\ calls' = Append(calls, mid)
           /\ LET ok == Feasible(linprog, mid)
                  bounds == BisectUpdate(peak_min, peak_max, mid, ok)
              IN  peak_min' = bounds[1] /\ peak_max' = bounds[2]
    /\ i' = i + 1
    /\ UNCHANGED <<pc, front, unconstrained, selected>>
    /\ UNCHANGED <<entry, site_config, run_config, timeseries, solver, result, model, status,
                   dispatch_df, err, log, metrics, cfg, n_points, linprog, preference>>

\* lines 186-191: the loop is over; the unconstrained solve widens the range
SolveUnconstrained ==
    /\ entry = "compute_pareto_front"
    /\ pc = "bisection"
    /\ i = BisectionIterations
    /\ calls' = Append(calls, UnconstrainedLimit)
    /\ \E u \in solve_with_peak_limit(linprog, cfg, UnconstrainedLimit) :
        /\ unconstrained' = u
        /\ peak_min' = MinFeasiblePeak(peak_min, peak_max)
        /\ peak_max' = IF u # None
                       THEN MaxW(MulW(u.peak_demand_kw, R(11, 10)),
                                 MulW(MinFeasiblePeak(peak_min, peak_max), R(3, 2)))
                       ELSE peak_max
    /\ pc' = "sweep"
    /\ i' = 0
    /\ UNCHANGED <<front, selected>>
    /\ UNCHANGED <<entry, site_config, run_config, timeseries, solver, result, model, status,
                   dispatch_df, err, log, metrics, cfg, n_points, linprog, preference>>

\* the same values from stop down to start
LinspaceReversed(start, stop, num, k) ==
    IF k = num /\ num > 1 THEN start
    ELSE IF num = 1 THEN stop
    ELSE AddW(stop, MulW(SubW(start, stop), R(k - 1, num - 1)))

\* np.linspace(start, stop, num)[k], k from 1
Linspace(start, stop, num, k) ==
    IF k = num /\ num > 1 THEN stop
    ELSE IF num = 1 THEN start
    ELSE CHOOSE e \in {AddW(start, step) :
                         step \in {MulW(span, R(k - 1, num - 1)) :
                                     span \in {SubW(stop, start)}}} : TRUE

\* line 199: costs closer than this count as the same point
SameCost == R(1, 1000000)

\* every solved point kept, whatever its cost
AcceptAll(fr, point) == IF point # None THEN Append(fr, point) ELSE fr

\* lines 197-200 for one point of the sweep
Accept(fr, point) ==
    IF point # None
       /\ (fr = <<>> \/ Gt(AbsV(Sub(point.energy_cost, fr[Len(fr)].energy_cost)), SameCost))
    THEN Append(fr, point)
    ELSE fr

\* lines 196-200, one pass of the loop
Sweep ==
    /\ entry = "compute_pareto_front"
    /\ pc = "sweep"
    /\ i < n_points
    /\ \E eps \in {Linspace(peak_min, peak_max, n_points, i + 1)} :
           /\ calls' = Append(calls, eps)
           /\ \E point \in solve_with_peak_limit(linprog, cfg, eps) :
                front' = Accept(front, point)
    /\ i' = i + 1
    /\ UNCHANGED <<pc, peak_min, peak_max, unconstrained, selected>>
    /\ UNCHANGED <<entry, site_config, run_config, timeseries, solver, result, model, status,
                   dispatch_df, err, log, metrics, cfg, n_points, linprog, preference>>

\* line 202
ParetoReturn ==
    /\ entry = "compute_pareto_front"
    /\ pc = "sweep"
    /\ i = n_points
    /\ pc' = "returned"
    /\ UNCHANGED <<i, peak_min, peak_max, unconstrained, front, calls, selected>>
    /\ UNCHANGED <<entry, site_config, run_config, timeseries, solver, result, model, status,
                   dispatch_df, err, log, metrics, cfg, n_points, linprog, preference>>

\* the largest n_points tried
MaxPoints == 3

\* A Config whose initial SOC lies under min_soc has to charge in the first
\* step; the arrays are kept to those whose first import is then still a
\* value of GridPower.
GridCovers(c, ts) ==
    LET need == Sub(Mul(c.capacity_kwh, c.min_soc_frac), Mul(c.capacity_kwh, c.initial_soc_frac))
    IN  Le(need, Zero) \/ Le(Add(ts.load_kw[1], need), Num(2))

\* compute_pareto_front(cfg, load, pv, import_price, export_price, n_points)
InitPareto ==
    /\ entry = "compute_pareto_front"
    /\ pc = "bisection"
    /\ site_config = None
    /\ run_config = None
    /\ cfg \in Config
    /\ timeseries \in {ts \in ParetoTimeseries : GridCovers(cfg, ts)}
    /\ linprog = LinprogTable(cfg, timeseries)
    /\ n_points \in 0..MaxPoints
    /\ peak_min = Zero
    /\ peak_max = InitialPeakMax(timeseries)
    /\ unconstrained = None /\ front = <<>> /\ calls = <<>>
    /\ preference = Zero /\ selected = None
    /\ solver = "in_contract"
    /\ result = None
    /\ i = 0
    /\ dispatch_df = None
    /\ model = NoModel /\ status = "not_called" /\ err = NoException
    /\ log = <<>> /\ metrics = None

NextPareto == Bisect \/ SolveUnconstrained \/ Sweep \/ ParetoReturn
SpecPareto == InitPareto /\ [][NextPareto]_vars
\* the function is sequential code: whatever statement comes next is executed
SpecParetoRuns == SpecPareto /\ WF_vars(NextPareto)

\* lines 216-224: score(a) - score(b) for two points of the front, with
\*   score(p) = (1 - w) * (p.energy_cost - e_min) / (e_max - e_min + 1e-9)
\*              + w * (p.peak_demand_kw - p_min) / (p_max - p_min + 1e-9)
\* multiplied by the positive (e_max - e_min + 1e-9) * (p_max - p_min + 1e-9):
\*   (1 - w) * de * (P + 1e-9) + w * dp * (E + 1e-9).
\* It is kept as <<m, s>>, standing for m + s * 1e-9, so that the 1e-9 never
\* meets another denominator.
EnergyCosts(fr) == {fr[k].energy_cost : k \in 1..Len(fr)}
Peaks(fr) == {fr[k].peak_demand_kw : k \in 1..Len(fr)}
MinOf(S) == CHOOSE x \in S : \A y \in S : Le(x, y)
MaxOf(S) == CHOOSE x \in S : \A y \in S : Ge(x, y)
ScoreGap(a, b, fr, w) ==
    LET E == Sub(MaxOf(EnergyCosts(fr)), MinOf(EnergyCosts(fr)))
        P == Sub(MaxOf(Peaks(fr)), MinOf(Peaks(fr)))
        de == Mul(Sub(Num(1), w), Sub(a.energy_cost, b.energy_cost))
        dp == Mul(w, Sub(a.peak_demand_kw, b.peak_demand_kw))
    IN  <<Add(Mul(de, P), Mul(dp, E)), Add(de, dp)>>
\* m + s * 1e-9 < 0: every m met here is 0 or far above 1e-9 * s in size
Negative(g) == Lt(g[1], Zero) \/ (g[1] = Zero /\ Lt(g[2], Zero))

\* the comparison with energy and peak weighted the other way round
ScoreLessSwapped(a, b, fr, w) == Negative(ScoreGap(a, b, fr, Sub(Num(1), w)))
\* score(a) < score(b)
ScoreLess(a, b, fr, w) == Negative(ScoreGap(a, b, fr, w))

\* Python's min(front, key=...): the first point no other point is under
RECURSIVE MinTotalCost(_, _)
MinTotalCost(fr, n) ==
    IF n = 1 THEN fr[1]
    ELSE LET best == MinTotalCost(fr, n - 1)
         IN  IF Lt(fr[n].total_cost, best.total_cost) THEN fr[n] ELSE best
RECURSIVE MinScore(_, _, _)
MinScore(fr, n, w) ==
    IF n = 1 THEN fr[1]
    ELSE LET best == MinScore(fr, n - 1, w)
         IN  IF ScoreLess(fr[n], best, fr, w) THEN fr[n] ELSE best

\* the normalised score at every preference, 0.5 included
select_by_score(fr, w) == MinScore(fr, Len(fr), w)
\* lines 205-226
\* a point that need not be on the front: the best of each objective
select_ideal_point(fr, w) ==
    [energy_cost |-> MinOf(EnergyCosts(fr)), peak_demand_kw |-> MinOf(Peaks(fr)),
     total_cost |-> MinTotalCost(fr, Len(fr)).total_cost]

\* lines 212-226
select_operating_point(fr, w) ==
    IF w = R(1, 2) THEN MinTotalCost(fr, Len(fr)) ELSE MinScore(fr, Len(fr), w)

\* select_operating_point on a non-empty front returns; min() of an empty
\* front raises ValueError
SelectOperatingPoint ==
    /\ entry = "select_operating_point"
    /\ pc = "select_operating_point"
    /\ IF front = <<>>
       THEN /\ err' = "ValueError"
            /\ pc' = "raised"
            /\ selected' = selected
       ELSE /\ selected' = select_operating_point(front, preference)
            /\ pc' = "returned"
            /\ err' = err
    /\ UNCHANGED <<entry, site_config, run_config, timeseries, solver, result, i, model, status,
                   dispatch_df, log, metrics, cfg, n_points, linprog, peak_min, peak_max,
                   unconstrained, front, calls, preference>>

\* the fronts and preferences select_operating_point is called with
MaxFront == 3
DemandCharges == {Num(1), Num(3)}
Preferences == {Zero, R(1, 4), R(1, 2), Num(1)}
FrontPoints(c) == {ParetoPoint(c, Num(e), Num(p)) : e \in 1..3, p \in 1..2}
Fronts(c) == UNION {[1..n -> FrontPoints(c)] : n \in 0..MaxFront}

InitSelect ==
    /\ entry = "select_operating_point"
    /\ pc = "select_operating_point"
    /\ site_config = None
    /\ run_config = None
    /\ cfg \in {[c EXCEPT !.demand_charge_per_kw = r] :
                  c \in {k \in Config : k.initial_soc_frac = R(1, 2)}, r \in DemandCharges}
    /\ timeseries = None
    /\ linprog = {}
    /\ n_points = 0
    /\ peak_min = Zero /\ peak_max = Zero
    /\ unconstrained = None /\ calls = <<>>
    /\ front \in Fronts(cfg)
    /\ preference \in Preferences
    /\ selected = None
    /\ solver = "in_contract"
    /\ result = None
    /\ i = 0
    /\ dispatch_df = None
    /\ model = NoModel /\ status = "not_called" /\ err = NoException
    /\ log = <<>> /\ metrics = None

NextSelect == SelectOperatingPoint
SpecSelect == InitSelect /\ [][NextSelect]_vars

(***************************************************************************)
(* compute_cost called on its own, on a dispatch frame with price columns  *)
(***************************************************************************)
ComputeCost ==
    /\ entry = "compute_cost"
    /\ pc = "compute_cost"
    /\ result' = compute_cost(dispatch_df, site_config, run_config, timestep_hours(run_config))
    /\ pc' = "returned"
    /\ UNCHANGED <<i, model, status, dispatch_df, err, log>>
    /\ Untouched

\* the rows of the frames compute_cost is given
CostRows ==
    {[grid_import_kw |-> imp, grid_export_kw |-> exp, battery_charge_kw |-> b[1],
      battery_discharge_kw |-> b[2], soc_kwh |-> Num(1),
      import_price_gbp_per_kwh |-> ip, export_price_gbp_per_kwh |-> Num(1)] :
        imp \in Power, exp \in {Zero, Num(1)},
        b \in {<<Zero, Zero>>, <<Num(1), Zero>>, <<Zero, Num(1)>>},
        ip \in {Num(1), Num(2)}}
CostFrames == UNION {[1..n -> CostRows] : n \in 1..MaxT}

InitCost ==
    /\ entry = "compute_cost"
    /\ pc = "compute_cost"
    /\ site_config \in {s \in SiteConfig :
                          /\ EtaPair(s.battery) = <<Num(1), Num(1)>>
                          /\ SocTriple(s.battery) = <<Zero, Num(1), R(1, 2)>>
                          /\ Caps(s) = <<None, None>>}
    /\ run_config \in {r \in RunConfig :
                         /\ r.timestep_minutes = 30
                         /\ r.tariff.flat_import_price_gbp_per_kwh = None
                         /\ r.tariff.flat_export_price_gbp_per_kwh = None}
    /\ timeseries = None
    /\ dispatch_df \in CostFrames
    /\ solver = "in_contract"
    /\ result = None
    /\ i = 0
    /\ Fresh

NextCost == ComputeCost
SpecCost == InitCost /\ [][NextCost]_vars

(***************************************************************************)
(* compute_metrics called on its own, on two dispatch frames with prices   *)
(***************************************************************************)
ComputeMetrics ==
    /\ entry = "compute_metrics"
    /\ pc = "called"
    /\ metrics' = compute_metrics(dispatch_df, result, site_config, run_config,
                                  timestep_hours(run_config))
    /\ pc' = "returned"
    /\ UNCHANGED <<entry, site_config, run_config, timeseries, solver, frontier>>
    /\ UNCHANGED <<result, i, model, status, dispatch_df, err, log>>

\* the frames compute_metrics is given: of any length, the empty frame included
MetricsRows ==
    {r \in CostRows :
        /\ r.import_price_gbp_per_kwh = Num(1)
        /\ r.battery_discharge_kw = Zero
        /\ <<r.grid_import_kw, r.grid_export_kw, r.battery_charge_kw>> \in
              {<<Zero, Zero, Zero>>, <<Num(2), Zero, Zero>>, <<Zero, Num(1), Num(1)>>}}
MetricsFrames == UNION {[1..n -> MetricsRows] : n \in 0..MaxT}

InitMetrics ==
    /\ entry = "compute_metrics"
    /\ pc = "called"
    /\ site_config \in {s \in SiteConfig :
                          /\ EtaPair(s.battery) = <<Num(1), Num(1)>>
                          /\ SocTriple(s.battery) = <<Zero, Num(1), R(1, 2)>>
                          /\ Caps(s) = <<None, None>>}
    /\ run_config \in {r \in RunConfig :
                         /\ r.timestep_minutes = 30
                         /\ r.tariff.flat_import_price_gbp_per_kwh = None
                         /\ r.tariff.flat_export_price_gbp_per_kwh = None}
    /\ timeseries = None
    /\ dispatch_df \in MetricsFrames
    /\ result \in MetricsFrames
    /\ solver = "in_contract"
    /\ i = 0
    /\ Fresh

NextMetrics == ComputeMetrics
SpecMetrics == InitMetrics /\ [][NextMetrics]_vars

\* ---------------------------------------------------------------------------
\* validate_timeseries on a whole DataFrame (core/validate.py lines 14-61).
\* A frame carries its index (the kind of index and the timestamps, in minutes)
\* and, for every column it has, one value per row.

\* validate.py line 34: pandas' is_monotonic_increasing allows equal neighbours
is_monotonic_increasing(index) ==
    \A k \in 1..(Len(index) - 1) : index[k] <= index[k + 1]

\* validate.py line 38
has_duplicates(index) ==
    \E j, k \in 1..Len(index) : j # k /\ index[j] = index[k]

\* validate.py line 44: index.to_series().diff().dropna()
time_diffs(index) ==
    [k \in 1..(Len(index) - 1) |-> index[k + 1] - index[k]]

\* a test applied to every required column
ends_with_kw_or_any(col) == TRUE

\* validate.py line 54: col.endswith("_kw")
ends_with_kw(col) == col \in {"load_kw", "pv_kw"}

\* validate.py lines 24-61, in the order of the code
validate_timeseries_frame(df, expected_timestep_minutes) ==
    IF AllColumns \ df.columns # {} THEN "ValidationError"
    ELSE IF df.index_kind # "DatetimeIndex" THEN "ValidationError"
    ELSE IF ~is_monotonic_increasing(df.index) THEN "ValidationError"
    ELSE IF has_duplicates(df.index) THEN "ValidationError"
    ELSE IF /\ Len(df.index) > 1
            /\ \E k \in 1..(Len(df.index) - 1) :
                   time_diffs(df.index)[k] # expected_timestep_minutes
         THEN "ValidationError"
    ELSE IF \E col \in AllColumns :
               /\ ends_with_kw(col)
               /\ \E k \in 1..Len(df.index) : Lt(df[col][k], Zero)
         THEN "ValidationError"
    ELSE IF \E col \in AllColumns : \E k \in 1..Len(df.index) : IsNaN(df[col][k])
         THEN "ValidationError"
    ELSE NoException

\* validate_timeseries called on its own
ValidateTimeseries ==
    /\ entry = "validate_timeseries"
    /\ pc = "called"
    /\ err' = validate_timeseries_frame(timeseries, run_config.timestep_minutes)
    /\ pc' = IF err' = NoException THEN "returned" ELSE "raised"
    /\ log' = Append(log, "validate_timeseries")
    /\ UNCHANGED <<entry, site_config, run_config, timeseries, solver, frontier>>
    /\ UNCHANGED <<result, i, model, status, dispatch_df, metrics>>

\* timestamps, in minutes after the first possible one
Timestamps == {0, 30, 60}

\* the values a cell may hold besides the sound one
BadValues == {Num(-1), NaN}

\* a frame of n rows whose cells hold 1 except at most one cell
FrameValues(n) ==
    {[col \in AllColumns |-> [k \in 1..n |-> Num(1)]]}
    \cup {[col \in AllColumns |->
             [k \in 1..n |-> IF col = c /\ k = row THEN v ELSE Num(1)]] :
          c \in AllColumns, row \in 1..n, v \in BadValues}

Frames ==
    UNION {{[index_kind |-> kind, index |-> index, columns |-> AllColumns \ missing,
             load_kw |-> val["load_kw"], pv_kw |-> val["pv_kw"],
             import_price_gbp_per_kwh |-> val["import_price_gbp_per_kwh"],
             export_price_gbp_per_kwh |-> val["export_price_gbp_per_kwh"]] :
            kind \in {"DatetimeIndex", "RangeIndex"},
            index \in [1..n -> Timestamps],
            missing \in {{}} \cup {{c} : c \in AllColumns},
            val \in FrameValues(n)} : n \in 0..MaxT}

InitValidateTs ==
    /\ entry = "validate_timeseries"
    /\ pc = "called"
    /\ site_config = None
    /\ run_config \in {r \in RunConfig :
                         /\ r.tariff.flat_import_price_gbp_per_kwh = None
                         /\ r.tariff.flat_export_price_gbp_per_kwh = None
                         /\ ~r.tariff.demand_charge_enabled
                         /\ r.tariff.demand_charge_gbp_per_kw = Zero}
    /\ timeseries \in Frames
    /\ dispatch_df = None
    /\ result = None
    /\ solver = "in_contract"
    /\ i = 0
    /\ Fresh

NextValidateTs == ValidateTimeseries
SpecValidateTs == InitValidateTs /\ [][NextValidateTs]_vars

\* ---------------------------------------------------------------------------
\* solve_with_peak_limit called on its own (multi_objective_bess.py lines 73-159)

\* the peak limits of the calls
PeakLimits == {R(1, 2), Num(1), Num(2), UnconstrainedLimit}

\* Config with a lossless and with a lossy battery
PeakConfigs == Config \cup {[c EXCEPT !.efficiency = R(1, 2)] : c \in Config}

\* lines 145-159: build the LP, hand it to linprog, wrap the answer
SolveWithPeakLimit ==
    /\ entry = "solve_with_peak_limit"
    /\ pc = "called"
    /\ \E peak_limit \in PeakLimits :
          \E m \in {PeakLimitModel(cfg, timeseries, peak_limit)} :
             \E opt \in {OptimalPoints(m)} :
                /\ model' = m
                /\ calls' = Append(calls, peak_limit)
                /\ IF opt = {}
                   THEN selected' = None /\ dispatch_df' = None
                   ELSE \E x \in opt :
                           /\ selected' = ParetoPoint(cfg, Value(m.objective, x),
                                                      ActualPeak(x, m.T))
                           /\ dispatch_df' = DispatchOf(x, m.T)
    /\ pc' = "returned"
    /\ UNCHANGED <<entry, site_config, run_config, timeseries, solver, metrics>>
    /\ UNCHANGED <<cfg, n_points, linprog, peak_min, peak_max, unconstrained, front,
                   preference>>
    /\ UNCHANGED <<result, i, status, err, log>>

InitPeakLimit ==
    /\ entry = "solve_with_peak_limit"
    /\ pc = "called"
    /\ site_config = None
    /\ run_config = None
    /\ cfg \in PeakConfigs
    /\ timeseries \in {ts \in ParetoTimeseries :
                         ts.import_price_gbp_per_kwh = <<Num(1), Num(3)>>}
    /\ linprog = {}
    /\ n_points = 0
    /\ peak_min = Zero /\ peak_max = Zero
    /\ unconstrained = None /\ front = <<>> /\ calls = <<>>
    /\ preference = Zero /\ selected = None
    /\ solver = "in_contract"
    /\ result = None
    /\ i = 0
    /\ dispatch_df = None
    /\ model = NoModel /\ status = "not_called" /\ err = NoException
    /\ log = <<>> /\ metrics = None

NextPeakLimit == SolveWithPeakLimit
SpecPeakLimit == InitPeakLimit /\ [][NextPeakLimit]_vars

Init == InitBaseline \/ InitBuildSolve \/ InitBacktest \/ InitValidate \/ InitPareto
        \/ InitSelect \/ InitCost \/ InitMetrics \/ InitValidateTs
        \/ InitPeakLimit

Next ==
    \/ BaselineStep
    \/ BaselineReturn
    \/ BuildModel
    \/ SolveRaises
    \/ SolveNotOk
    \/ SolveOk
    \/ BacktestValidateInput
    \/ ValidateDispatch
    \/ BacktestMetrics
    \/ BacktestWrite
    \/ Bisect
    \/ SolveUnconstrained
    \/ Sweep
    \/ ParetoReturn
    \/ SelectOperatingPoint
    \/ ComputeCost
    \/ ComputeMetrics
    \/ ValidateTimeseries
    \/ SolveWithPeakLimit

Spec == Init /\ [][Next]_vars

\* compute_baseline_dispatch called on its own
NextBaseline == BaselineStep \/ BaselineReturn
SpecBaseline == InitBaseline /\ [][NextBaseline]_vars

\* build_model followed by solve_model
NextSolve == BuildModel \/ SolveRaises \/ SolveNotOk \/ SolveOk
SpecSolve == InitBuildSolve /\ [][NextSolve]_vars

\* run_backtest
NextBacktest ==
    \/ BaselineStep
    \/ BaselineReturn
    \/ BuildModel
    \/ SolveRaises
    \/ SolveNotOk
    \/ SolveOk
    \/ BacktestValidateInput
    \/ ValidateDispatch
    \/ BacktestMetrics
    \/ BacktestWrite
SpecBacktest == InitBacktest /\ [][NextBacktest]_vars

\* every producer of a dispatch: compute_baseline_dispatch on its own and run_backtest
InitDispatch == InitBaseline \/ InitBacktest
SpecDispatch == InitDispatch /\ [][NextBacktest]_vars

\* compute_pareto_front and select_operating_point
InitFront == InitPareto \/ InitSelect
NextFront == NextPareto \/ NextSelect
SpecFront == InitFront /\ [][NextFront]_vars

\* validate_dispatch_result called on its own
NextValidate == ValidateDispatch
SpecValidate == InitValidate /\ [][NextValidate]_vars

(***************************************************************************)
(* Properties.                                                             *)
(***************************************************************************)
Close(a, b) == Lt(AbsV(Sub(a, b)), NUMERICAL_TOLERANCE)

\* compute_baseline_dispatch has returned its result
BaselineReturned ==
    \/ entry = "compute_baseline_dispatch" /\ pc = "returned"
    \/ entry = "run_backtest" /\ pc \in {"compute_metrics", "write_results", "returned"}

\* solve_model has returned the dispatch of a solver that kept its contract
SolveReturned == status = "ok" /\ solver = "in_contract"

InitialSocInRange(battery) ==
    /\ Le(battery.min_soc_frac, battery.initial_soc_frac)
    /\ Le(battery.initial_soc_frac, battery.max_soc_frac)

EnergyBalance(df, ts) ==
    \A t \in 1..Len(df) :
        Close(Add(Add(ts.load_kw[t], df[t].battery_charge_kw), df[t].grid_export_kw),
              Add(Add(ts.pv_kw[t], df[t].battery_discharge_kw), df[t].grid_import_kw))

SocRecurrence(df, battery, dt) ==
    \A t \in 1..Len(df) :
        /\ battery.discharge_efficiency # Zero
        /\ df[t].soc_kwh =
             Sub(Add(IF t = 1 THEN Mul(battery.initial_soc_frac, battery.capacity_kwh)
                     ELSE df[t - 1].soc_kwh,
                     Mul(df[t].battery_charge_kw, Mul(battery.charge_efficiency, dt))),
                 Div(Mul(df[t].battery_discharge_kw, dt), battery.discharge_efficiency))

BoundsHold(df, site) ==
    LET b == site.battery
    IN  \A t \in 1..Len(df) :
            /\ Ge(df[t].grid_import_kw, Zero) /\ Ge(df[t].grid_export_kw, Zero)
            /\ Ge(df[t].battery_charge_kw, Zero) /\ Ge(df[t].battery_discharge_kw, Zero)
            /\ Ge(df[t].soc_kwh, Mul(b.min_soc_frac, b.capacity_kwh))
            /\ Le(df[t].soc_kwh, Mul(b.max_soc_frac, b.capacity_kwh))
            /\ Le(df[t].battery_charge_kw, b.max_charge_kw)
            /\ Le(df[t].battery_discharge_kw, b.max_discharge_kw)
            /\ site.max_grid_import_kw # None => Le(df[t].grid_import_kw, site.max_grid_import_kw)
            /\ site.max_grid_export_kw # None => Le(df[t].grid_export_kw, site.max_grid_export_kw)

\* C1: every dispatch compute_baseline_dispatch returns satisfies the energy
\* balance load + charge + export = pv + discharge + import at every step,
\* whether or not the site sets grid caps.
C1_BaselineEnergyBalance ==
    BaselineReturned => EnergyBalance(result, timeseries)

\* C2: every dispatch solve_model returns for a model build_model built
\* satisfies the energy balance at every step.
C2_SolverEnergyBalance ==
    SolveReturned => EnergyBalance(dispatch_df, timeseries)

C2_Witness ==
    /\ SolveReturned
    /\ Len(dispatch_df) = MaxT
    /\ \E t \in 1..Len(dispatch_df) :
          /\ Gt(dispatch_df[t].battery_discharge_kw, Zero)
          /\ Gt(dispatch_df[t].grid_import_kw, Zero)
    /\ \E t \in 1..Len(dispatch_df) :
          /\ Gt(dispatch_df[t].battery_charge_kw, Zero)
          /\ Gt(dispatch_df[t].grid_export_kw, Zero)

\* C3: every dispatch solve_model returns keeps the four flows >= 0, the SOC
\* inside [min_soc, max_soc], charge and discharge within their power limits,
\* and grid import / export within the site caps that are set.
C3_SolverBounds ==
    SolveReturned => BoundsHold(dispatch_df, site_config)

C3_Witness ==
    /\ SolveReturned
    /\ Len(dispatch_df) = MaxT
    /\ site_config.max_grid_import_kw # None
    /\ \E t \in 1..Len(dispatch_df) :
          /\ dispatch_df[t].grid_import_kw = site_config.max_grid_import_kw
          /\ dispatch_df[t].battery_discharge_kw = site_config.battery.max_discharge_kw
    /\ \E t \in 1..Len(dispatch_df) : dispatch_df[t].soc_kwh = min_soc(site_config.battery)

\* C4: the SOC of every returned dispatch follows
\* soc[t] = soc[t-1] + charge[t]*eta_c*dt - discharge[t]*dt/eta_d with
\* soc[-1] = initial_soc: for the solver's dispatch always, and for the
\* baseline's whenever the initial SOC lies in [min_soc, max_soc], so that
\* the baseline's final clamp never changes the value it is applied to.
C4_SocRecurrence ==
    /\ SolveReturned =>
          SocRecurrence(dispatch_df, site_config.battery, timestep_hours(run_config))
    /\ BaselineReturned /\ InitialSocInRange(site_config.battery) =>
          SocRecurrence(result, site_config.battery, timestep_hours(run_config))

C4_Witness ==
    /\ entry = "run_backtest" /\ pc = "returned"
    /\ SolveReturned
    /\ InitialSocInRange(site_config.battery)
    /\ Len(result) = MaxT
    /\ \E t \in 1..Len(dispatch_df) : Gt(dispatch_df[t].battery_discharge_kw, Zero)
    /\ \E t \in 1..Len(result) :
          /\ Gt(result[t].battery_charge_kw, Zero)
          /\ result[t].soc_kwh = max_soc(site_config.battery)

\* C5: for every site config whose initial SOC lies in [min_soc, max_soc],
\* the dispatch compute_baseline_dispatch returns is accepted by
\* validate_dispatch_result.
C5_BaselinePassesValidation ==
    BaselineReturned /\ InitialSocInRange(site_config.battery) =>
        validate_dispatch_result(result, site_config) = NoException

C5_Witness ==
    /\ entry = "compute_baseline_dispatch" /\ pc = "returned"
    /\ InitialSocInRange(site_config.battery)
    /\ Lt(site_config.battery.initial_soc_frac, site_config.battery.max_soc_frac)
    /\ Gt(site_config.battery.charge_efficiency, Zero)
    /\ Len(result) = MaxT
    /\ site_config.max_grid_import_kw # None
    /\ site_config.max_grid_export_kw # None
    /\ \E t \in 1..Len(result) :
          /\ result[t].grid_import_kw = site_config.max_grid_import_kw
          /\ Gt(Sub(timeseries.load_kw[t], timeseries.pv_kw[t]),
                Add(site_config.max_grid_import_kw, result[t].battery_discharge_kw))
    /\ \E t \in 1..Len(result) :
          /\ Gt(result[t].battery_charge_kw, Zero)
          /\ result[t].soc_kwh = max_soc(site_config.battery)

\* C6: validate_dispatch_result checks every dispatch invariant (energy
\* balance, SOC dynamics, SOC bounds, non-negative flows, power limits and
\* grid caps): it rejects every dispatch that violates one of them and
\* accepts every dispatch that satisfies them all.
C6_ValidatorComplete ==
    entry = "validate_dispatch_result" /\ pc \in {"returned", "raised"} =>
        ((pc = "returned") <=>
            /\ EnergyBalance(dispatch_df, timeseries)
            /\ SocRecurrence(dispatch_df, site_config.battery, timestep_hours(run_config))
            /\ BoundsHold(dispatch_df, site_config))

Position(call) ==
    IF \E k \in 1..Len(log) : log[k] = call
    THEN CHOOSE k \in 1..Len(log) : log[k] = call
    ELSE 0

\* C7: run_backtest calls validate_dispatch_result on the solver's dispatch
\* directly after every successful solve and before metrics are computed or
\* results written; a ValidationError raised there ends the run, so no
\* metrics and no results come from a dispatch that failed validation.
C7_ValidateBeforeMetrics ==
    entry = "run_backtest" =>
        /\ \A k \in 1..Len(log) :
              log[k] = "solve_model" /\ status = "ok" /\ k < Len(log) =>
                  log[k + 1] = "validate_dispatch_result"
        /\ \A k \in 1..Len(log) :
              log[k] \in {"compute_metrics", "write_results"} =>
                  /\ Position("validate_dispatch_result") \in 1..(k - 1)
                  /\ validate_dispatch_result(dispatch_df, site_config) = NoException
        /\ Position("validate_dispatch_result") > 0
             /\ validate_dispatch_result(dispatch_df, site_config) # NoException =>
                  /\ pc = "raised" /\ err = "ValidationError"
                  /\ log[Len(log)] = "validate_dispatch_result"

C7_Witness ==
    /\ entry = "run_backtest"
    /\ pc = "raised" /\ err = "ValidationError"
    /\ status = "ok"
    /\ log = <<"validate_timeseries", "build_model", "solve_model", "validate_dispatch_result">>

\* C8: solve_model raises SolverError when the solver itself fails and
\* InfeasibleError when the solver reports a non-optimal status, so the two
\* causes are distinguishable by error kind.
C8_DistinctErrorKinds ==
    /\ status = "raised" => err = "SolverError"
    /\ status = "warning" => err = "InfeasibleError"

NoPriceSource(run, ts) ==
    \/ /\ "import_price_gbp_per_kwh" \notin ts.columns
       /\ run.tariff.flat_import_price_gbp_per_kwh = None
    \/ /\ "export_price_gbp_per_kwh" \notin ts.columns
       /\ run.tariff.flat_export_price_gbp_per_kwh = None

\* C9: build_model fails with ConfigError exactly when the import price or
\* the export price has no source (neither a timeseries column nor a flat
\* tariff value); in every other case it returns a model and raises nothing.
C9_BuildModelErrors ==
    entry = "build_model" /\ Len(log) = 1 =>
        IF NoPriceSource(run_config, timeseries)
        THEN pc = "raised" /\ err = "ConfigError"
        ELSE pc # "raised" /\ err = NoException /\ model.built

\* C10: compute_baseline_dispatch never raises for any config the schema
\* accepts (either efficiency anywhere in [0, 1]) and returns a dispatch with
\* exactly one row per timestep.
C10_BaselineNeverRaises ==
    entry = "compute_baseline_dispatch" =>
        /\ pc # "raised"
        /\ pc = "returned" => Len(result) = Len_ts(timeseries)

WellFormed(site) ==
    /\ Lt(site.battery.min_soc_frac, site.battery.max_soc_frac)
    /\ InitialSocInRange(site.battery)
    /\ Gt(site.battery.charge_efficiency, Zero)
    /\ Gt(site.battery.discharge_efficiency, Zero)

NegativeImportSteps(ts) ==
    {t \in 1..Len_ts(ts) : Lt(ts.import_price_gbp_per_kwh[t], Zero)}

\* C11: for a well-formed input without grid caps whose import price is
\* negative at some step, whatever the export price, the LP build_model
\* builds is bounded and has an optimal dispatch; the dispatch solve_model
\* returns keeps every variable >= 0 and imports at the negative-price step.
C11_NegativePriceSolves ==
    /\ entry = "build_model"
    /\ model.built
    /\ WellFormed(site_config)
    /\ Caps(site_config) = <<None, None>>
    /\ "import_price_gbp_per_kwh" \in timeseries.columns
    /\ NegativeImportSteps(timeseries) # {}
    => /\ ~Unbounded(model)
       /\ OptimalPoints(model) # {}
       /\ SolveReturned =>
             \A t \in 1..Len(dispatch_df) :
                 /\ Ge(dispatch_df[t].grid_import_kw, Zero)
                 /\ Ge(dispatch_df[t].grid_export_kw, Zero)
                 /\ Ge(dispatch_df[t].battery_charge_kw, Zero)
                 /\ Ge(dispatch_df[t].battery_discharge_kw, Zero)
                 /\ Ge(dispatch_df[t].soc_kwh, Zero)
                 /\ t \in NegativeImportSteps(timeseries) =>
                       Gt(dispatch_df[t].grid_import_kw, Zero)

\* C12: whenever run_backtest completes, with or without grid caps, the
\* optimal dispatch is not costlier than the baseline dispatch under
\* compute_cost: savings_gbp = baseline cost - optimal cost >= 0 up to the
\* numerical tolerance.
C12_SavingsNonNegative ==
    entry = "run_backtest" /\ pc = "returned" /\ solver = "in_contract" =>
        Ge(metrics.savings_gbp, Neg(NUMERICAL_TOLERANCE))

(***************************************************************************)
(* compute_pareto_front and select_operating_point                         *)
(***************************************************************************)
\* the least peak limit at which solve_with_peak_limit succeeds
TrueMinPeak == CHOOSE p \in {r[1] : r \in linprog} : \A r \in linprog : LeW(p, r[1])
BisectionDone == entry = "compute_pareto_front" /\ pc \in {"sweep", "returned"}
\* (initial upper bound - 0) / 2^20
BisectionError == MulW(InitialPeakMax(timeseries), R(1, 1048576))
BisectionResultGood ==
    /\ Feasible(linprog, peak_min)
    /\ LeW(SubW(peak_min, TrueMinPeak), BisectionError)

C14_FrontMonotone ==
    entry = "compute_pareto_front" =>
        \A k \in 1..(Len(front) - 1) :
            /\ LeW(front[k].peak_demand_kw, front[k + 1].peak_demand_kw)
            /\ Le(front[k + 1].energy_cost, front[k].energy_cost)

\* a returned front of two points, the second cheaper and with the higher peak
C14_Witness ==
    /\ entry = "compute_pareto_front"
    /\ pc = "returned"
    /\ Len(front) >= 2
    /\ LtW(front[1].peak_demand_kw, front[2].peak_demand_kw)
    /\ Lt(front[2].energy_cost, front[1].energy_cost)

CostsDiffer(p, q) == Gt(AbsV(Sub(p.energy_cost, q.energy_cost)), SameCost)

\* C15: the sweep changes the front only by appending one solved point, and
\* only when the front is empty or the point's energy cost is more than 1e-6
\* away from that of the last accepted point; consecutive points of the front
\* therefore differ in energy cost by more than 1e-6.
C15_AppendGuard ==
    [][entry = "compute_pareto_front" /\ front' # front =>
          /\ Len(front') = Len(front) + 1
          /\ front' = Append(front, front'[Len(front')])
          /\ front'[Len(front')] # None
          /\ front = <<>> \/ CostsDiffer(front'[Len(front')], front[Len(front)])
          /\ \A k \in 1..(Len(front') - 1) : CostsDiffer(front'[k + 1], front'[k])]_vars

\* a sweep that kept two points and left out at least one solved point
C15_Witness ==
    /\ entry = "compute_pareto_front"
    /\ pc = "returned"
    /\ Len(front) >= 2
    /\ Len(front) < n_points
    /\ Feasible(linprog, peak_min)

Selected == entry = "select_operating_point" /\ pc = "returned"
InFront(p) == \E k \in 1..Len(front) : front[k] = p

\* C16: at preference 0 the point returned has the least energy cost of the
\* front, at preference 1 the least peak demand.
C16_SelectExtremes ==
    Selected =>
        /\ InFront(selected)
        /\ preference = Zero =>
              \A k \in 1..Len(front) : Le(selected.energy_cost, front[k].energy_cost)
        /\ preference = Num(1) =>
              \A k \in 1..Len(front) : Le(selected.peak_demand_kw, front[k].peak_demand_kw)

\* at preference 0 the cheapest point was returned although it is neither the
\* first of the front nor the one of least peak
C16_Witness ==
    /\ Selected
    /\ preference = Zero
    /\ selected # front[1]
    /\ \E k \in 1..Len(front) : Lt(front[k].peak_demand_kw, selected.peak_demand_kw)

\* C17: at preference 0.5 the point returned has the least total_cost
\* (energy cost plus peak times the demand charge); at any other preference
\* no point of the front has a smaller normalised score.
C17_SelectBalanced ==
    Selected =>
        /\ selected.total_cost =
               Add(selected.energy_cost, Mul(selected.peak_demand_kw, cfg.demand_charge_per_kw))
        /\ preference = R(1, 2) =>
              \A k \in 1..Len(front) : Le(selected.total_cost, front[k].total_cost)
        /\ preference # R(1, 2) =>
              \A k \in 1..Len(front) : ~ScoreLess(front[k], selected, front, preference)

\* at preference 0.5 the point of least total cost was returned where the
\* normalised score would have picked another
C17_Witness ==
    /\ Selected
    /\ preference = R(1, 2)
    /\ select_by_score(front, preference) # selected

\* C18: compute_pareto_front makes exactly 20 + 1 + n_points calls of
\* solve_with_peak_limit, one per pass and in this order: the 20 midpoints of
\* the bisection, the limit 1000, the n_points values of the sweep.  A failed
\* solve of the bisection only raises the lower bound; a failed solve of the
\* sweep adds no point and the sweep goes on; nothing raises, and the function
\* returns.
C18_OneCall ==
    entry = "compute_pareto_front" /\ calls' # calls =>
        LET n == Len(calls')
            ok == Feasible(linprog, calls'[n])
        IN  /\ calls' = Append(calls, calls'[n])
            /\ err' = NoException
            /\ n <= BisectionIterations =>
                  /\ calls'[n] = Half(peak_min, peak_max)
                  /\ ~ok => /\ peak_min' = calls'[n]
                            /\ LtW(peak_min, peak_min')
                            /\ peak_max' = peak_max
                            /\ front' = front
            /\ n = BisectionIterations + 1 => calls'[n] = UnconstrainedLimit
            /\ n > BisectionIterations + 1 =>
                  /\ calls'[n] = Linspace(peak_min, peak_max, n_points, n - BisectionIterations - 1)
                  /\ ~ok => front' = front
                  /\ pc' = "sweep"
C19_DispatchOnlyOnOk ==
    /\ [][entry = "build_model" /\ dispatch_df' # dispatch_df =>
             status' = "ok" /\ pc' = "returned" /\ err' = NoException]_vars
    /\ [](entry = "build_model" /\ status \notin {"ok", "not_called"} =>
             dispatch_df = None /\ pc = "raised" /\ err = "RuntimeError")

\* the solver stopped short on a model that has an optimum, and solve_model raised
C19_Witness ==
    /\ entry = "build_model"
    /\ status = "warning"
    /\ pc = "raised"
    /\ err = "RuntimeError"
    /\ dispatch_df = None
    /\ model.T > 0
    /\ OptimalPoints(model) # {}

(***************************************************************************)
(* compute_cost                                                            *)
(***************************************************************************)
CostReturned == entry = "compute_cost" /\ pc = "returned"
PeakImport == MaxOf({dispatch_df[t].grid_import_kw : t \in 1..Len(dispatch_df)})
RECURSIVE Total(_, _)
Total(term(_), n) == IF n = 0 THEN Zero ELSE Add(Total(term, n - 1), term(n))

\* C20: compute_cost returns
\*   sum(import * import_price * dt) - sum(export * export_price * dt)
\*   + degradation_rate * sum((charge + discharge) * dt) + D,
\* with D the highest import times the demand charge rate when the demand
\* charge is enabled, and 0 when it is not, whatever the rate.
C20_CostFormula ==
    CostReturned =>
        LET dt == timestep_hours(run_config)
            tariff == run_config.tariff
            imports(t) ==
                Mul(Mul(dispatch_df[t].grid_import_kw, dispatch_df[t].import_price_gbp_per_kwh), dt)
            exports(t) ==
                Mul(Mul(dispatch_df[t].grid_export_kw, dispatch_df[t].export_price_gbp_per_kwh), dt)
            throughput(t) ==
                Mul(Add(dispatch_df[t].battery_charge_kw, dispatch_df[t].battery_discharge_kw), dt)
            n == Len(dispatch_df)
            D == IF tariff.demand_charge_enabled
                 THEN Mul(PeakImport, tariff.demand_charge_gbp_per_kw)
                 ELSE Zero
        IN  result =
              Add(Add(Sub(Total(imports, n), Total(exports, n)),
                      Mul(site_config.battery.degradation_cost_gbp_per_kwh,
                          Total(throughput, n))),
                  D)

\* a cost was returned for a frame with import and battery throughput, under a
\* tariff whose demand charge is switched off while its rate is positive
C20_Witness ==
    /\ CostReturned
    /\ ~run_config.tariff.demand_charge_enabled
    /\ Gt(run_config.tariff.demand_charge_gbp_per_kw, Zero)
    /\ Gt(PeakImport, Zero)
    /\ Gt(site_config.battery.degradation_cost_gbp_per_kwh, Zero)
    /\ \E t \in 1..Len(dispatch_df) : Gt(dispatch_df[t].battery_discharge_kw, Zero)

(***************************************************************************)
(* compute_metrics                                                         *)
(***************************************************************************)
MetricsReturned == entry = "compute_metrics" /\ pc = "returned"

\* C21: compute_metrics with one dispatch as both the optimal and the baseline
\* argument yields savings_gbp = 0, savings_pct = 0 and peak_reduction_kw = 0.
C21_SelfComparisonZero ==
    MetricsReturned /\ dispatch_df = result =>
        /\ metrics.savings_gbp = Zero
        /\ metrics.savings_pct = Zero
        /\ metrics.peak_reduction_kw = Zero

\* C22: compute_metrics never fails on a division: with a baseline cost of
\* exactly 0 it returns savings_pct = 0 whatever the optimal cost, and with any
\* other baseline cost (baseline_cost - optimal_cost) / baseline_cost * 100.
C22_SavingsPctGuarded ==
    MetricsReturned =>
        LET dt == timestep_hours(run_config)
            baseline_cost == compute_cost(result, site_config, run_config, dt)
            optimal_cost == compute_cost(dispatch_df, site_config, run_config, dt)
        IN  /\ err = NoException
            /\ baseline_cost = Zero => metrics.savings_pct = Zero
            /\ baseline_cost # Zero =>
                  metrics.savings_pct =
                      Mul(Div(Sub(baseline_cost, optimal_cost), baseline_cost), Num(100))

\* metrics came back for a baseline that costs nothing and an optimal
\* dispatch that costs something
C22_Witness ==
    /\ MetricsReturned
    /\ Len(result) > 0
    /\ metrics.baseline_cost_gbp = Zero
    /\ metrics.optimal_cost_gbp # Zero
    /\ metrics.savings_pct = Zero

(***************************************************************************)
(* BatteryConfig: the cross-field conditions                               *)
(***************************************************************************)
\* C23: a battery configuration that reaches the baseline loop or the model
\* builder satisfies min_soc_frac < max_soc_frac and
\* min_soc_frac <= initial_soc_frac <= max_soc_frac; any other configuration
\* is rejected before the baseline or the optimisation runs.
C23_CrossFieldsChecked ==
    \/ entry = "compute_baseline_dispatch" /\ i > 0
    \/ entry \in {"build_model", "run_backtest"} /\ model.built
    => /\ Lt(site_config.battery.min_soc_frac, site_config.battery.max_soc_frac)
       /\ InitialSocInRange(site_config.battery)

\* ---------------------------------------------------------------------------
\* C24
ValidateTsDone == entry = "validate_timeseries" /\ pc \in {"returned", "raised"}

\* the defects of a frame, as the specification lists them
LacksColumn(df) == \E col \in AllColumns : col \notin df.columns
NotDatetimeIndex(df) == df.index_kind # "DatetimeIndex"
NotStrictlyIncreasing(df) ==
    \E k \in 1..(Len(df.index) - 1) : df.index[k] >= df.index[k + 1]
WrongSpacing(df, minutes) ==
    \E k \in 1..(Len(df.index) - 1) : df.index[k + 1] - df.index[k] # minutes
NegativePower(df) ==
    \E col \in {"load_kw", "pv_kw"} \cap df.columns :
        \E k \in 1..Len(df.index) : Lt(df[col][k], Zero)
MissingValue(df) ==
    \E col \in AllColumns \cap df.columns :
        \E k \in 1..Len(df.index) : IsNaN(df[col][k])
NegativePrice(df) ==
    \E col \in {"import_price_gbp_per_kwh", "export_price_gbp_per_kwh"} \cap df.columns :
        \E k \in 1..Len(df.index) : Lt(df[col][k], Zero)

\* C24: validate_timeseries raises ValidationError exactly for the frames that
\* lack a required column, have a non-datetime index, have timestamps that are
\* not strictly increasing, have a spacing other than the configured timestep,
\* hold a negative load_kw or pv_kw, or hold a NaN in a required column; every
\* other frame, negative prices included, is accepted.
C24_ValidateTimeseries ==
    ValidateTsDone =>
        /\ err \in {NoException, "ValidationError"}
        /\ err = "ValidationError" <=>
              \/ LacksColumn(timeseries)
              \/ NotDatetimeIndex(timeseries)
              \/ NotStrictlyIncreasing(timeseries)
              \/ WrongSpacing(timeseries, run_config.timestep_minutes)
              \/ NegativePower(timeseries)
              \/ MissingValue(timeseries)
        /\ (err = NoException) = (pc = "returned")

C24_Witness ==
    /\ ValidateTsDone
    /\ pc = "returned"
    /\ Len(timeseries.index) = 2
    /\ NegativePrice(timeseries)

\* ---------------------------------------------------------------------------
\* C25
\* the smallest of three, as Python's min(a, b, c) finds it
Min3(a, b, c) == PyMin(PyMin(a, b), c)

\* a quotient of two floats read back from the frame
Quot(a, b) == IF b = Zero THEN NumpyDivByZero(a) ELSE Div(a, b)

\* the flows of step k before the site caps, as the specification states them
StatedFlows(k) ==
    LET battery == site_config.battery
        dt == timestep_hours(run_config)
        net == Sub(timeseries.pv_kw[k], timeseries.load_kw[k])
        soc == IF k = 1 THEN initial_soc(battery) ELSE result[k - 1].soc_kwh
    IN  IF Gt(net, Zero)
        THEN LET charge == Min3(net, battery.max_charge_kw,
                                Quot(Sub(max_soc(battery), soc),
                                     Mul(dt, battery.charge_efficiency)))
             IN  Row(Zero, Sub(net, charge), charge, Zero, soc)
        ELSE LET discharge == Min3(Neg(net), battery.max_discharge_kw,
                                   Quot(Sub(soc, min_soc(battery)),
                                        Quot(dt, battery.discharge_efficiency)))
             IN  Row(Sub(Neg(net), discharge), Zero, Zero, discharge, soc)

Capped(flow, cap) == IF cap = None \/ Le(flow, cap) THEN flow ELSE cap

\* C25: every row the baseline loop has stored holds the charge and discharge
\* of the stated greedy rule (surplus: charge first, export the rest; otherwise
\* discharge first, import the rest), the import and export of that rule
\* lowered to the site caps, and the SOC updated from the uncapped charge and
\* discharge.
C25_BaselineStepRule ==
    entry = "compute_baseline_dispatch" =>
        \A k \in 1..i :
            LET stated == StatedFlows(k)
                battery == site_config.battery
                dt == timestep_hours(run_config)
            IN  /\ result[k].battery_charge_kw = stated.battery_charge_kw
                /\ result[k].battery_discharge_kw = stated.battery_discharge_kw
                /\ result[k].grid_import_kw =
                       Capped(stated.grid_import_kw, site_config.max_grid_import_kw)
                /\ result[k].grid_export_kw =
                       Capped(stated.grid_export_kw, site_config.max_grid_export_kw)
                /\ result[k].soc_kwh =
                       BaselineClampSoc(battery,
                           Sub(Add(stated.soc_kwh,
                                   Mul(Mul(stated.battery_charge_kw, dt),
                                       battery.charge_efficiency)),
                               Div(Mul(stated.battery_discharge_kw, dt),
                                   battery.discharge_efficiency)))

\* both branches taken, a limit of the battery binding and a site cap binding
C25_Witness ==
    /\ entry = "compute_baseline_dispatch"
    /\ i = 2
    /\ Gt(timeseries.pv_kw[1], timeseries.load_kw[1])
    /\ ~Gt(timeseries.pv_kw[2], timeseries.load_kw[2])
    /\ Lt(result[1].battery_charge_kw, Sub(timeseries.pv_kw[1], timeseries.load_kw[1]))
    /\ Gt(result[1].battery_charge_kw, Zero)
    /\ Gt(result[2].battery_discharge_kw, Zero)
    /\ StatedFlows(2).grid_import_kw # result[2].grid_import_kw

\* ---------------------------------------------------------------------------
\* C26
PeakLimitReturned == entry = "solve_with_peak_limit" /\ pc = "returned"

\* the engine's configuration the specification names for a Config and a limit
EngineSite(c, eps) ==
    [battery |->
        [capacity_kwh |-> c.capacity_kwh,
         max_charge_kw |-> c.max_charge_kw,
         max_discharge_kw |-> c.max_discharge_kw,
         charge_efficiency |-> c.efficiency,
         discharge_efficiency |-> c.efficiency,
         min_soc_frac |-> c.min_soc_frac,
         max_soc_frac |-> c.max_soc_frac,
         initial_soc_frac |-> c.initial_soc_frac,
         degradation_cost_gbp_per_kwh |-> Zero],
     max_grid_import_kw |-> eps,
     max_grid_export_kw |-> None]
EngineRun(c) ==
    [timestep_minutes |-> (60 * c.timestep_hours[1]) \div c.timestep_hours[2],
     tariff |-> [flat_import_price_gbp_per_kwh |-> None,
                 flat_export_price_gbp_per_kwh |-> None,
                 demand_charge_enabled |-> FALSE,
                 demand_charge_gbp_per_kw |-> Zero]]
EngineModel == ModelOf(EngineSite(cfg, calls[1]), EngineRun(cfg), timeseries)

\* C26: the LP solve_with_peak_limit built for a peak limit has the 5T
\* variables, the feasible set and the objective of the model build_model
\* builds for the same battery, import cap = the peak limit, no export cap,
\* one efficiency for both directions, no degradation and no demand charge.
C26_SameProgram ==
    PeakLimitReturned =>
        LET engine == EngineModel
            feasible == FeasiblePoints(model)
        IN  /\ model.nvars = Len(VarNames) * Len_ts(timeseries)
            /\ model.nvars = engine.nvars
            /\ feasible = FeasiblePoints(engine)
            /\ \A x \in feasible :
                   Value(model.objective, x) = Value(engine.objective, x)

\* a limit that binds and a battery with losses that some feasible dispatch charges
C26_Witness ==
    /\ PeakLimitReturned
    /\ selected # None
    /\ selected.peak_demand_kw = calls[1]
    /\ cfg.efficiency = R(1, 2)
    /\ \E x \in FeasiblePoints(model) : x[Var("battery_charge_kw", 0)] # Zero

\* ---------------------------------------------------------------------------
\* C27
InBisection == entry = "compute_pareto_front" /\ pc = "bisection"
LastCall == calls[Len(calls)]

\* the bracket after any number of passes
BracketOk ==
    /\ LeW(Zero, peak_min)
    /\ LeW(peak_min, peak_max)
    /\ LeW(peak_max, InitialPeakMax(timeseries))
    /\ \/ /\ peak_max = InitialPeakMax(timeseries)
          /\ \A k \in 1..Len(calls) : calls[k] # InitialPeakMax(timeseries)
       \/ \E k \in 1..Len(calls) : calls[k] = peak_max /\ Feasible(linprog, peak_max)

\* one pass of the loop
BracketStep ==
    InBisection /\ pc' = "bisection" =>
        /\ AddW(LastCall', LastCall') = AddW(peak_min, peak_max)
        /\ LeW(peak_min, peak_min')
        /\ LeW(peak_max', peak_max)
        /\ \/ peak_min' = LastCall' /\ peak_max' = peak_max /\ peak_min' # peak_min
           \/ peak_max' = LastCall' /\ peak_min' = peak_min /\ peak_max' # peak_max
        /\ SubW(peak_max', peak_min') = MulW(SubW(peak_max, peak_min), R(1, 2))

\* the end of the loop and the first limit of the sweep
SweepStart ==
    /\ InBisection /\ pc' = "sweep" => peak_min' = peak_max
    /\ pc = "sweep" /\ i = 0 /\ i' = 1 => LastCall' = peak_min

\* C27: throughout the bisection 0 <= lower <= upper <= initial upper; a pass
\* solves at the midpoint and moves exactly one of the two bounds to it, lower
\* never down and upper never up, so the gap halves; upper is the initial bound,
\* which was never solved, or a midpoint whose solve returned a solution; and
\* the sweep starts at peak_min = upper.
C27_Bracket == [](InBisection => BracketOk) /\ [][BracketStep /\ SweepStart]_vars

\* both bounds have moved and the sweep has started from the upper one
C27_Witness ==
    /\ entry = "compute_pareto_front"
    /\ pc = "sweep"
    /\ i = 1
    /\ LastCall = peak_min
    /\ LtW(peak_min, InitialPeakMax(timeseries))
    /\ \E k \in 1..BisectionIterations : ~Feasible(linprog, calls[k])

\* ---------------------------------------------------------------------------
\* C28
PriceColumns == {"import_price_gbp_per_kwh", "export_price_gbp_per_kwh"}
LacksPriceColumn == PriceColumns \ timeseries.columns # {}
Called(name) == \E k \in 1..Len(log) : log[k] = name

\* C28: run_backtest on a timeseries without one of the price columns ends in
\* validate_timeseries with ValidationError, whatever flat prices the tariff
\* has: build_model, solve_model and write_results are never called, so
\* whenever run_backtest does call build_model both price columns are there
\* and neither the flat-price fallback nor the missing-price error is taken.
C28_PriceColumnsRequired ==
    entry = "run_backtest" =>
        /\ LacksPriceColumn /\ pc # "validate_timeseries" =>
              /\ pc = "raised"
              /\ err = "ValidationError"
              /\ log = <<"validate_timeseries">>
              /\ model = NoModel
              /\ status = "not_called"
              /\ dispatch_df = None
              /\ metrics = None
        /\ Called("build_model") =>
              /\ ~LacksPriceColumn
              /\ PriceLookup(run_config, timeseries) = NoException
              /\ ImportPrice(run_config, timeseries) = timeseries.import_price_gbp_per_kwh
              /\ ExportPrice(run_config, timeseries) = timeseries.export_price_gbp_per_kwh

\* a bundle without the import price column whose tariff has both flat prices
C28_Witness ==
    /\ entry = "run_backtest"
    /\ pc = "raised"
    /\ "import_price_gbp_per_kwh" \notin timeseries.columns
    /\ run_config.tariff.flat_import_price_gbp_per_kwh # None
    /\ run_config.tariff.flat_export_price_gbp_per_kwh # None
    /\ Len_ts(timeseries) > 0

\* ---------------------------------------------------------------------------
\* C29
SelectDone == entry = "select_operating_point" /\ pc \in {"returned", "raised"}

\* every limit of the sweep was infeasible
SweepAllFailed ==
    \A k \in (BisectionIterations + 2)..Len(calls) : ~Feasible(linprog, calls[k])

SelectOutcome ==
    /\ SelectDone =>
          /\ front # <<>> => pc = "returned" /\ err = NoException /\ InFront(selected)
          /\ front = <<>> => pc = "raised" /\ err # NoException /\ selected = None
    /\ entry = "compute_pareto_front" /\ pc = "returned" /\ SweepAllFailed => front = <<>>

\* C29: for a non-empty front and a preference in [0, 1] select_operating_point
\* returns one of the points of the front; for an empty front, which is what
\* compute_pareto_front returns when every solve of its sweep fails, it raises;
\* either way the front stays the one it was given.
C29_SelectFromFront ==
    []SelectOutcome /\ [][entry = "select_operating_point" => front' = front]_vars

\* a choice among three points that are not all the same
C29_Witness ==
    /\ SelectDone
    /\ pc = "returned"
    /\ Len(front) = MaxFront
    /\ preference = R(1, 4)
    /\ \E j, k \in 1..Len(front) : front[j] # front[k]

\* ---------------------------------------------------------------------------
\* C30
NonZero(v) == v # Zero

\* C30: when the initial SOC fraction lies within [min_soc_frac, max_soc_frac],
\* every row of the baseline dispatch has at most one of charge and discharge
\* and at most one of import and export non-zero; charge and export are
\* non-zero only at steps with pv > load, discharge and import only at steps
\* with pv <= load.
C30_BaselineExclusive ==
    entry = "compute_baseline_dispatch" /\ InitialSocInRange(site_config.battery) =>
        \A k \in 1..i :
            LET row == result[k]
                surplus == Gt(timeseries.pv_kw[k], timeseries.load_kw[k])
            IN  /\ ~(NonZero(row.battery_charge_kw) /\ NonZero(row.battery_discharge_kw))
                /\ ~(NonZero(row.grid_import_kw) /\ NonZero(row.grid_export_kw))
                /\ NonZero(row.battery_charge_kw) \/ NonZero(row.grid_export_kw) => surplus
                /\ NonZero(row.battery_discharge_kw) \/ NonZero(row.grid_import_kw)
                       => ~surplus

\* a returned dispatch that charged in one step and discharged in another
C30_Witness ==
    /\ entry = "compute_baseline_dispatch"
    /\ pc = "returned"
    /\ InitialSocInRange(site_config.battery)
    /\ i = 2
    /\ \E j, k \in 1..i :
          /\ NonZero(result[j].battery_charge_kw) /\ NonZero(result[j].grid_export_kw)
          /\ NonZero(result[k].battery_discharge_kw) /\ NonZero(result[k].grid_import_kw)

====
